---- MODULE Spec2Model ----
(***************************************************************************)
(* Model of the host datapath program bpf/bpf_host.c: the entry points     *)
(* cil_from_netdev, cil_from_host, cil_to_host and cil_host_policy and the *)
(* tail-call fragments they chain into.  One action is one program         *)
(* fragment run to completion on one CPU (a tc BPF program runs with       *)
(* bottom halves disabled, so no other packet runs on that CPU between the *)
(* instructions of a fragment nor between a fragment and the fragment it   *)
(* tail-calls).                                                            *)
(*                                                                         *)
(* Build configuration modelled: ENABLE_IPV4 and ENABLE_IPV6 defined (so   *)
(* WORLD_IPV4_ID/WORLD_IPV6_ID are 9/10), ENABLE_ARP_RESPONDER defined     *)
(* (node_config.h), ENABLE_IPV4_FRAGMENTS/ENABLE_IPV6_FRAGMENTS defined,   *)
(* ENABLE_IPSEC, ENABLE_WIREGUARD, ENABLE_L7_LB, ENABLE_L2_ANNOUNCEMENTS,  *)
(* ENABLE_SRV6, ENABLE_VTEP, ENABLE_MASQUERADE_IPV4/6 and                  *)
(* ENABLE_NODEPORT_ACCELERATION undefined.  ENABLE_HOST_FIREWALL,          *)
(* ENABLE_NODEPORT, ENABLE_HOST_ROUTING, TUNNEL_MODE and the runtime       *)
(* option secctx_from_ipcache are fields of cfg, chosen in Init.           *)
(***************************************************************************)
EXTENDS Integers, Sequences, FiniteSets, TLC

VARIABLES
  cfg,                 \* build/runtime configuration
  pc,                  \* pc[c]: fragment CPU c runs next ("idle", "done" or a fragment)
  pkt,                 \* pkt[c]: the packet CPU c is processing
  cb,                  \* cb[c]: metadata slots of the ctx on CPU c
  meta_log,            \* meta_log[c]: slot accesses of the last fragment on CPU c
  tail_call_buffer4,   \* cilium_tail_call_buffer4: one struct ct_buffer4 per CPU
  tail_call_buffer6,   \* cilium_tail_call_buffer6: one struct ct_buffer6 per CPU
  verdict,             \* verdict[c]: value returned to the kernel for pkt[c]
  gh,                  \* gh[c]: history of the packet on CPU c (observation only)
  nextId,              \* number of the next packet
  fib                  \* the call of the FIB redirect engine in progress, and its result

vars == <<cfg, pc, pkt, cb, meta_log, tail_call_buffer4, tail_call_buffer6,
          verdict, gh, nextId, fib>>

-----------------------------------------------------------------------------
(* Bounds *)

NumCpus == 2
MaxPackets == 2

Cpus == 1..NumCpus

-----------------------------------------------------------------------------
(* Program constants *)

UNKNOWN_ID == 0
HOST_ID == 1
WORLD_ID == 2
UNMANAGED_ID == 3
REMOTE_NODE_ID == 6
KUBE_APISERVER_NODE_ID == 7
WORLD_IPV4_ID == 9
WORLD_IPV6_ID == 10

FROM_HOST_FLAG_NEED_HOSTFW == 2
FROM_HOST_FLAG_HOST_ID == 4

DropReasons ==
  {"DROP_INVALID", "DROP_INVALID_TC_BUFFER", "DROP_MISSED_TAIL_CALL",
   "DROP_EP_NOT_READY", "DROP_UNSUPPORTED_L2", "DROP_UNKNOWN_L3",
   "DROP_VLAN_FILTERED", "DROP_UNROUTABLE", "DROP_WRITE_ERROR",
   "DROP_POLICY_DENIED", "DROP_CT_INVALID_HDR", "DROP_NO_SERVICE",
   "DROP_PROXY_SET_FAILED", "DROP_FRAG_NOSUPPORT", "DROP_INVALID_EXTHDR",
   "DROP_NO_EGRESS_GATEWAY", "DROP_NO_TUNNEL_ENDPOINT"}

IS_ERR(ret) == ret \in DropReasons

Slots ==
  {"CB_SRC_LABEL", "CB_FROM_HOST", "CB_IPCACHE_SRC_LABEL", "CB_TRACED",
   "CB_PROXY_MAGIC", "CB_DST_ENDPOINT_ID"}

-----------------------------------------------------------------------------
(* Addresses and lookup tables.  An address is a small number; 0 is the    *)
(* all-zero address (0.0.0.0, ::).                                         *)

Addrs == 0..6

NoInfo ==
  [present |-> FALSE, sec_identity |-> 0, flag_skip_tunnel |-> FALSE,
   flag_has_tunnel_ep |-> FALSE]

Info(id, skip, tep) ==
  [present |-> TRUE, sec_identity |-> id, flag_skip_tunnel |-> skip,
   flag_has_tunnel_ep |-> tep]

\* remote-endpoint table (ipcache), IPv4 view
lookup_ip4_remote_endpoint(addr) ==
  CASE addr = 1 -> Info(HOST_ID, FALSE, FALSE)         \* node address
    [] addr = 2 -> Info(2000, FALSE, FALSE)            \* local workload
    [] addr = 3 -> Info(3000, FALSE, TRUE)             \* remote workload
    [] addr = 4 -> Info(WORLD_IPV4_ID, FALSE, FALSE)   \* catch-all world
    [] addr = 6 -> Info(50, TRUE, TRUE)                \* remote, not tunnelled
    [] OTHER -> NoInfo

\* remote-endpoint table (ipcache), IPv6 view
lookup_ip6_remote_endpoint(addr) ==
  CASE addr = 1 -> Info(HOST_ID, FALSE, FALSE)
    [] addr = 2 -> Info(2000, FALSE, FALSE)
    [] addr = 3 -> Info(3000, FALSE, TRUE)
    [] addr = 4 -> Info(WORLD_IPV6_ID, FALSE, FALSE)
    [] addr = 6 -> Info(50, TRUE, TRUE)
    [] OTHER -> NoInfo

NoEndpoint == [present |-> FALSE, host_delivery |-> FALSE, ifindex |-> 0]

\* local-endpoint table, IPv4 view
lookup_ip4_endpoint(addr) ==
  CASE addr = 1 -> [present |-> TRUE, host_delivery |-> TRUE, ifindex |-> 1]
    [] addr = 2 -> [present |-> TRUE, host_delivery |-> FALSE, ifindex |-> 7]
    [] OTHER -> NoEndpoint

\* local-endpoint table, IPv6 view
lookup_ip6_endpoint(addr) ==
  CASE addr = 1 -> [present |-> TRUE, host_delivery |-> TRUE, ifindex |-> 1]
    [] addr = 2 -> [present |-> TRUE, host_delivery |-> FALSE, ifindex |-> 7]
    [] OTHER -> NoEndpoint

identity_is_remote_node(identity) ==
  identity = REMOTE_NODE_ID \/ identity = KUBE_APISERVER_NODE_ID

identity_is_reserved(identity) ==
  \/ identity < UNMANAGED_ID
  \/ identity_is_remote_node(identity)
  \/ identity = WORLD_IPV4_ID
  \/ identity = WORLD_IPV6_ID

identity_is_world_ipv4(identity) ==
  identity = WORLD_ID \/ identity = WORLD_IPV4_ID

identity_is_world_ipv6(identity) ==
  identity = WORLD_ID \/ identity = WORLD_IPV6_ID

-----------------------------------------------------------------------------
(* The ctx a fragment works on.  x.cb[s] = [v, w, u]: value of slot s,     *)
(* whether it was written while processing the current packet, and whether *)
(* it is still unread.  x.log collects the slot accesses of the running    *)
(* fragment.                                                               *)

ctx_load_meta(x, slot) ==
  [x EXCEPT !.cb[slot].u = FALSE,
            !.log = @ \cup {[op |-> "load", slot |-> slot, cleared |-> FALSE,
                             over |-> FALSE, own |-> x.cb[slot].w]}]

ctx_load_and_clear_meta(x, slot) ==
  [x EXCEPT !.cb[slot] = [v |-> 0, w |-> TRUE, u |-> FALSE],
            !.log = @ \cup {[op |-> "load", slot |-> slot, cleared |-> TRUE,
                             over |-> FALSE, own |-> x.cb[slot].w]}]

ctx_store_meta(x, slot, val) ==
  [x EXCEPT !.cb[slot] = [v |-> val, w |-> TRUE, u |-> TRUE],
            !.log = @ \cup {[op |-> "store", slot |-> slot, cleared |-> FALSE,
                             over |-> x.cb[slot].u /\ x.cb[slot].w,
                             own |-> TRUE]}]

bpf_clear_meta(x) ==
  [x EXCEPT !.cb = [s \in Slots |-> [v |-> 0, w |-> TRUE, u |-> FALSE]]]

\* value a load returns
Meta(x, slot) == x.cb[slot].v

\* outcome of a fragment: it returned ret to the kernel (next = "none") or
\* the tail call into fragment next succeeded
Return(x, ret) == [ret |-> ret, x |-> x, next |-> "none"]
TailCalled(x, next) == [ret |-> "CTX_ACT_OK", x |-> x, next |-> next]

\* tail_call_internal(): on failure control returns with the call index in
\* ext_err and DROP_MISSED_TAIL_CALL
send_drop_notify_error_with_exitcode_ext(x, src, error, ext_err, exitcode) ==
  Return([x EXCEPT !.g.notify = [sent |-> TRUE, reason |-> error,
                                  ext_err |-> ext_err, src |-> src]],
         exitcode)

send_drop_notify_error_ext(x, src, error, ext_err) ==
  send_drop_notify_error_with_exitcode_ext(x, src, error, ext_err, "CTX_ACT_DROP")

send_drop_notify_error(x, src, error) ==
  send_drop_notify_error_ext(x, src, error, "0")

-----------------------------------------------------------------------------
(* Source-identity resolution *)

\* fault: src_id starts as UNKNOWN_ID instead of WORLD_IPV4_ID
resolve_srcid_ipv4_no_world(saddr, srcid_from_proxy, sec_identity, from_host) ==
  LET reserved == identity_is_reserved(srcid_from_proxy)
      info == lookup_ip4_remote_endpoint(saddr)
      found == reserved /\ info.present
      sec_identity_out == IF found THEN info.sec_identity ELSE sec_identity
      srcid_from_ipcache ==
        IF found /\ info.sec_identity # HOST_ID
        THEN info.sec_identity ELSE srcid_from_proxy
      src_id ==
        IF from_host THEN srcid_from_ipcache
        ELSE IF cfg.secctx_from_ipcache THEN srcid_from_ipcache
        ELSE UNKNOWN_ID
  IN [src_id |-> src_id, sec_identity |-> sec_identity_out,
      lookup |-> reserved]

\* fault: the world default is applied to the first packet only
resolve_srcid_ipv4_first_only(saddr, srcid_from_proxy, sec_identity, from_host) ==
  LET reserved == identity_is_reserved(srcid_from_proxy)
      info == lookup_ip4_remote_endpoint(saddr)
      found == reserved /\ info.present
      sec_identity_out == IF found THEN info.sec_identity ELSE sec_identity
      srcid_from_ipcache ==
        IF found /\ info.sec_identity # HOST_ID
        THEN info.sec_identity ELSE srcid_from_proxy
      src_id ==
        IF from_host THEN srcid_from_ipcache
        ELSE IF cfg.secctx_from_ipcache THEN srcid_from_ipcache
        ELSE IF nextId = 1 THEN WORLD_IPV4_ID
        ELSE srcid_from_ipcache
  IN [src_id |-> src_id, sec_identity |-> sec_identity_out,
      lookup |-> reserved]

\* fault: the HOST_ID test on the table identity is inverted
resolve_srcid_ipv4_host_only(saddr, srcid_from_proxy, sec_identity, from_host) ==
  LET reserved == identity_is_reserved(srcid_from_proxy)
      info == lookup_ip4_remote_endpoint(saddr)
      found == reserved /\ info.present
      sec_identity_out == IF found THEN info.sec_identity ELSE sec_identity
      srcid_from_ipcache ==
        IF found /\ info.sec_identity = HOST_ID
        THEN info.sec_identity ELSE srcid_from_proxy
      src_id ==
        IF from_host THEN srcid_from_ipcache
        ELSE IF cfg.secctx_from_ipcache THEN srcid_from_ipcache
        ELSE WORLD_IPV4_ID
  IN [src_id |-> src_id, sec_identity |-> sec_identity_out,
      lookup |-> reserved]

\* fault: the table is consulted whatever the in-band identity
resolve_srcid_ipv4_always_lookup(saddr, srcid_from_proxy, sec_identity, from_host) ==
  LET info == lookup_ip4_remote_endpoint(saddr)
      found == info.present
      sec_identity_out == IF found THEN info.sec_identity ELSE sec_identity
      srcid_from_ipcache ==
        IF found /\ info.sec_identity # HOST_ID
        THEN info.sec_identity ELSE srcid_from_proxy
      src_id ==
        IF from_host THEN srcid_from_ipcache
        ELSE IF cfg.secctx_from_ipcache THEN srcid_from_ipcache
        ELSE WORLD_IPV4_ID
  IN [src_id |-> src_id, sec_identity |-> sec_identity_out,
      lookup |-> TRUE]

resolve_srcid_ipv4(saddr, srcid_from_proxy, sec_identity, from_host) ==
  LET reserved == identity_is_reserved(srcid_from_proxy)
      info == lookup_ip4_remote_endpoint(saddr)
      found == reserved /\ info.present
      sec_identity_out == IF found THEN info.sec_identity ELSE sec_identity
      srcid_from_ipcache ==
        IF found /\ info.sec_identity # HOST_ID
        THEN info.sec_identity ELSE srcid_from_proxy
      src_id ==
        IF from_host THEN srcid_from_ipcache
        ELSE IF cfg.secctx_from_ipcache THEN srcid_from_ipcache
        ELSE WORLD_IPV4_ID
  IN [src_id |-> src_id, sec_identity |-> sec_identity_out,
      lookup |-> reserved]

\* fault: the world fallback is missing
resolve_srcid_ipv6_no_fallback(saddr, srcid_from_ipcache_in, sec_identity, from_host) ==
  LET reserved == identity_is_reserved(srcid_from_ipcache_in)
      info == lookup_ip6_remote_endpoint(saddr)
      found == reserved /\ info.present
      sec_identity_out == IF found THEN info.sec_identity ELSE sec_identity
      srcid_from_ipcache ==
        IF found /\ info.sec_identity # HOST_ID
        THEN info.sec_identity ELSE srcid_from_ipcache_in
      src_id ==
        IF from_host THEN srcid_from_ipcache
        ELSE IF cfg.secctx_from_ipcache THEN srcid_from_ipcache
        ELSE srcid_from_ipcache
  IN [src_id |-> src_id, sec_identity |-> sec_identity_out,
      lookup |-> reserved]

\* fault: the table's identity is adopted even when it is HOST_ID
resolve_srcid_ipv6_adopt_host(saddr, srcid_from_ipcache_in, sec_identity, from_host) ==
  LET reserved == identity_is_reserved(srcid_from_ipcache_in)
      info == lookup_ip6_remote_endpoint(saddr)
      found == reserved /\ info.present
      sec_identity_out == IF found THEN info.sec_identity ELSE sec_identity
      srcid_from_ipcache == IF found THEN info.sec_identity ELSE srcid_from_ipcache_in
      src_id ==
        IF from_host THEN srcid_from_ipcache
        ELSE IF cfg.secctx_from_ipcache THEN srcid_from_ipcache
        ELSE WORLD_IPV6_ID
  IN [src_id |-> src_id, sec_identity |-> sec_identity_out,
      lookup |-> reserved]

resolve_srcid_ipv6(saddr, srcid_from_ipcache_in, sec_identity, from_host) ==
  LET reserved == identity_is_reserved(srcid_from_ipcache_in)
      info == lookup_ip6_remote_endpoint(saddr)
      found == reserved /\ info.present
      sec_identity_out == IF found THEN info.sec_identity ELSE sec_identity
      srcid_from_ipcache ==
        IF found /\ info.sec_identity # HOST_ID
        THEN info.sec_identity ELSE srcid_from_ipcache_in
      src_id ==
        IF from_host THEN srcid_from_ipcache
        ELSE IF cfg.secctx_from_ipcache THEN srcid_from_ipcache
        ELSE WORLD_IPV6_ID
  IN [src_id |-> src_id, sec_identity |-> sec_identity_out,
      lookup |-> reserved]

-----------------------------------------------------------------------------
(* Results of the helpers a handler calls: the value returned, the ctx, the *)
(* extended error, the punt_to_stack output and, when a tail call inside    *)
(* the helper succeeded, the fragment that now runs (control never comes    *)
(* back in that case).                                                      *)

H(x, ret, ext_err, punt) ==
  [ret |-> ret, x |-> x, ext_err |-> ext_err, punt |-> punt, next |-> "none"]

HTail(x, next) ==
  [ret |-> "CTX_ACT_OK", x |-> x, ext_err |-> "0", punt |-> FALSE, next |-> next]

\* tail_call_internal(ctx, index, ext_err)
tail_call_internal(x, index, tc_ok, why) ==
  IF tc_ok THEN HTail(x, index)
  ELSE H([x EXCEPT !.g.tc_failed = why], "DROP_MISSED_TAIL_CALL", index, FALSE)

\* a zero-filled map value; w (observation only) names the CPU whose packet
\* wrote the value and fresh tells whether that packet is still the current one
ZeroBuf == [saddr |-> 0, ret |-> "ZERO", w |-> 0, fresh |-> FALSE]

NeedHostfw(from_host_raw) == (from_host_raw \div FROM_HOST_FLAG_NEED_HOSTFW) % 2 = 1
IsHostId(from_host_raw) == (from_host_raw \div FROM_HOST_FLAG_HOST_ID) % 2 = 1

\* node_config.h: IS_L3_DEV(ifindex) is false unless the build defines it;
\* l3_devs are the devices for which the build's definition says true
IS_L3_DEV(ifindex, b) == ifindex \in b.l3_devs

\* bpf_host.c as built with node_config.h: no L3 device, frames carry an
\* Ethernet header
TcBuild == [l3_devs |-> {}, eth_hlen |-> 14, head_ok |-> TRUE, proto_ok |-> TRUE]

\* the frame's L2 header as maybe_add_l2_hdr() sees it
TcFrame == [l2 |-> "frame"]

\* fault: the header is added for an L3 device, not for an L2 device
maybe_add_l2_hdr_for_l3(ctx, ifindex, l2_hdr_required, b) ==
  IF ~IS_L3_DEV(ifindex, b)
    THEN [ctx |-> ctx, ret |-> "CTX_ACT_OK", l2_hdr_required |-> FALSE]
  ELSE IF b.eth_hlen = 0 THEN
    IF ~b.head_ok
      THEN [ctx |-> ctx, ret |-> "DROP_INVALID", l2_hdr_required |-> l2_hdr_required]
    ELSE IF ~b.proto_ok
      THEN [ctx |-> [ctx EXCEPT !.l2 = "grown"], ret |-> "DROP_WRITE_ERROR",
            l2_hdr_required |-> l2_hdr_required]
    ELSE [ctx |-> [ctx EXCEPT !.l2 = "synthesized"], ret |-> "CTX_ACT_OK",
          l2_hdr_required |-> l2_hdr_required]
  ELSE [ctx |-> ctx, ret |-> "CTX_ACT_OK", l2_hdr_required |-> l2_hdr_required]

\* maybe_add_l2_hdr() with add_l2_hdr(): ctx_change_head() grows the frame
\* by __ETH_HLEN, eth_store_proto() writes the ethertype; 0 is CTX_ACT_OK
maybe_add_l2_hdr(ctx, ifindex, l2_hdr_required, b) ==
  IF IS_L3_DEV(ifindex, b)
    THEN [ctx |-> ctx, ret |-> "CTX_ACT_OK", l2_hdr_required |-> FALSE]
  ELSE IF b.eth_hlen = 0 THEN
    IF ~b.head_ok
      THEN [ctx |-> ctx, ret |-> "DROP_INVALID", l2_hdr_required |-> l2_hdr_required]
    ELSE IF ~b.proto_ok
      THEN [ctx |-> [ctx EXCEPT !.l2 = "grown"], ret |-> "DROP_WRITE_ERROR",
            l2_hdr_required |-> l2_hdr_required]
    ELSE [ctx |-> [ctx EXCEPT !.l2 = "synthesized"], ret |-> "CTX_ACT_OK",
          l2_hdr_required |-> l2_hdr_required]
  ELSE [ctx |-> ctx, ret |-> "CTX_ACT_OK", l2_hdr_required |-> l2_hdr_required]

\* fault: the result of eth_store_daddr() is not checked
rewrite_dmac_to_host_unchecked(x, dmac_ok) ==
  H([x EXCEPT !.g.dmac = dmac_ok], "CTX_ACT_OK", "0", FALSE)

rewrite_dmac_to_host(x, dmac_ok) ==
  IF ~dmac_ok THEN H(x, "DROP_WRITE_ERROR", "0", FALSE)
  ELSE H([x EXCEPT !.g.dmac = TRUE], "CTX_ACT_OK", "0", FALSE)

\* fault: flag_has_tunnel_ep is tested first
ipv4_encap_wanted_tep_first(info) == info.present /\ info.flag_has_tunnel_ep

\* TUNNEL_MODE: flag_skip_tunnel is tested before flag_has_tunnel_ep
ipv4_encap_wanted(info) ==
  info.present /\ ~info.flag_skip_tunnel /\ info.flag_has_tunnel_ep

ipv6_encap_wanted(info) ==
  info.present /\ ~info.flag_skip_tunnel /\ info.flag_has_tunnel_ep

\* fault: the proxy exception also covers a destination without any entry
ipv4_unroutable_proxy_exempt(info, from_proxy) ==
  ~from_proxy /\ (~info.present \/ identity_is_world_ipv4(info.sec_identity))

\* fault: a destination without a remote-endpoint entry is let through
ipv4_unroutable_world_only(info, from_proxy) ==
  info.present /\ ~from_proxy /\ identity_is_world_ipv4(info.sec_identity)

\* no ipcache entry, or only the catch-all world entry and not from the proxy
ipv4_unroutable(info, from_proxy) ==
  ~info.present \/ (~from_proxy /\ identity_is_world_ipv4(info.sec_identity))

\* fault: packets from the proxy towards the world are dropped as well
ipv6_unroutable_proxy_too(info, from_proxy) ==
  ~info.present \/ identity_is_world_ipv6(info.sec_identity)

ipv6_unroutable(info, from_proxy) ==
  ~info.present \/ (~from_proxy /\ identity_is_world_ipv6(info.sec_identity))

-----------------------------------------------------------------------------
(* IPv4: continuation phase *)

\* fault: the endpoint lookup is made without ENABLE_HOST_ROUTING as well
handle_ipv4_cont_always_lookup(x, p, secctx, from_host, e) ==
  LET from_proxy == from_host /\ p.from_proxy # "none"
      magic == IF from_host /\ p.from_proxy = "egress" THEN "MARK_MAGIC_PROXY_EGRESS"
               ELSE IF from_host /\ p.from_proxy = "ingress" THEN "MARK_MAGIC_PROXY_INGRESS"
               ELSE "MARK_MAGIC_IDENTITY"
      \* history: which routing decision returned, and with what
      R(y, kind, dst_id, ret) ==
        H([y EXCEPT !.g.route = [kind |-> kind, dst_id |-> dst_id, ret |-> ret]],
          ret, "0", FALSE)
      Route(y) ==
        IF FALSE THEN R(y, "stack", 0, "CTX_ACT_OK")
        ELSE
          LET ep == lookup_ip4_endpoint(p.daddr)
              info == lookup_ip4_remote_endpoint(p.daddr)
          IN IF ep.present THEN
               IF ep.host_delivery THEN R(y, "host_delivery", 0, "CTX_ACT_OK")
               ELSE IF cfg.host_routing /\ ~from_host
                    /\ maybe_add_l2_hdr(TcFrame, ep.ifindex, TRUE, TcBuild).ret # "CTX_ACT_OK"
                 THEN R(y, "l2_hdr", 0,
                        maybe_add_l2_hdr(TcFrame, ep.ifindex, TRUE, TcBuild).ret)
               ELSE R([y EXCEPT !.g.effect = [kind |-> "local_delivery", id |-> secctx,
                                              magic |-> magic, to |-> ep.ifindex]],
                      "local_delivery", 0, e.ld)
             ELSE IF ~from_host THEN R(y, "external", 0, "CTX_ACT_OK")
             ELSE IF cfg.tunnel /\ ipv4_encap_wanted(info)
               THEN R([y EXCEPT !.g.effect = [kind |-> "encap", id |-> secctx,
                                              magic |-> "none", to |-> p.daddr]],
                      "encap", info.sec_identity, e.encap)
             ELSE IF ipv4_unroutable(info, from_proxy)
               THEN R(y, "unroutable", 0, "DROP_UNROUTABLE")
             ELSE R(y, "direct", info.sec_identity, "CTX_ACT_OK")
      \* the host policy is applied to the looked-up CT result
      Applied(y, ct_buffer, from_host_raw) ==
        [y EXCEPT !.g.applied = [set |-> TRUE, saddr |-> ct_buffer.saddr,
                                 ret |-> ct_buffer.ret, w |-> ct_buffer.w,
                                 fresh |-> ct_buffer.fresh,
                                 is_host_id |-> from_host /\ IsHostId(from_host_raw)],
                  !.g.hp_ret = e.pol]
      HostFw(y, ct_buffer, from_host_raw) ==
        IF ~e.lk_ok
          THEN H([y EXCEPT !.g.rejected = "missing"], "DROP_INVALID_TC_BUFFER", "0", FALSE)
        ELSE IF ct_buffer.saddr = 0
          THEN H([y EXCEPT !.g.rejected = "zero"], "DROP_INVALID_TC_BUFFER", "0", FALSE)
        ELSE IF IS_ERR(e.pol) \/ e.pol = "CTX_ACT_REDIRECT"
          THEN H(Applied(y, ct_buffer, from_host_raw), e.pol, "0", FALSE)
        ELSE Route(Applied(y, ct_buffer, from_host_raw))
      Cont(y, from_host_raw) ==
        IF cfg.hostfw /\ NeedHostfw(from_host_raw) THEN HostFw(y, y.b4, from_host_raw)
        ELSE Route(y)
  IN
  IF p.short THEN H(x, "DROP_INVALID", "0", FALSE)
  ELSE Cont(IF cfg.hostfw THEN ctx_load_and_clear_meta(x, "CB_FROM_HOST") ELSE x,
            Meta(x, "CB_FROM_HOST"))

handle_ipv4_cont(x, p, secctx, from_host, e) ==
  LET from_proxy == from_host /\ p.from_proxy # "none"
      magic == IF from_host /\ p.from_proxy = "egress" THEN "MARK_MAGIC_PROXY_EGRESS"
               ELSE IF from_host /\ p.from_proxy = "ingress" THEN "MARK_MAGIC_PROXY_INGRESS"
               ELSE "MARK_MAGIC_IDENTITY"
      \* history: which routing decision returned, and with what
      R(y, kind, dst_id, ret) ==
        H([y EXCEPT !.g.route = [kind |-> kind, dst_id |-> dst_id, ret |-> ret]],
          ret, "0", FALSE)
      Route(y) ==
        IF ~cfg.host_routing /\ ~from_host THEN R(y, "stack", 0, "CTX_ACT_OK")
        ELSE
          LET ep == lookup_ip4_endpoint(p.daddr)
              info == lookup_ip4_remote_endpoint(p.daddr)
          IN IF ep.present THEN
               IF ep.host_delivery THEN R(y, "host_delivery", 0, "CTX_ACT_OK")
               ELSE IF cfg.host_routing /\ ~from_host
                    /\ maybe_add_l2_hdr(TcFrame, ep.ifindex, TRUE, TcBuild).ret # "CTX_ACT_OK"
                 THEN R(y, "l2_hdr", 0,
                        maybe_add_l2_hdr(TcFrame, ep.ifindex, TRUE, TcBuild).ret)
               ELSE R([y EXCEPT !.g.effect = [kind |-> "local_delivery", id |-> secctx,
                                              magic |-> magic, to |-> ep.ifindex]],
                      "local_delivery", 0, e.ld)
             ELSE IF ~from_host THEN R(y, "external", 0, "CTX_ACT_OK")
             ELSE IF cfg.tunnel /\ ipv4_encap_wanted(info)
               THEN R([y EXCEPT !.g.effect = [kind |-> "encap", id |-> secctx,
                                              magic |-> "none", to |-> p.daddr]],
                      "encap", info.sec_identity, e.encap)
             ELSE IF ipv4_unroutable(info, from_proxy)
               THEN R(y, "unroutable", 0, "DROP_UNROUTABLE")
             ELSE R(y, "direct", info.sec_identity, "CTX_ACT_OK")
      \* the host policy is applied to the looked-up CT result
      Applied(y, ct_buffer, from_host_raw) ==
        [y EXCEPT !.g.applied = [set |-> TRUE, saddr |-> ct_buffer.saddr,
                                 ret |-> ct_buffer.ret, w |-> ct_buffer.w,
                                 fresh |-> ct_buffer.fresh,
                                 is_host_id |-> from_host /\ IsHostId(from_host_raw)],
                  !.g.hp_ret = e.pol]
      HostFw(y, ct_buffer, from_host_raw) ==
        IF ~e.lk_ok
          THEN H([y EXCEPT !.g.rejected = "missing"], "DROP_INVALID_TC_BUFFER", "0", FALSE)
        ELSE IF ct_buffer.saddr = 0
          THEN H([y EXCEPT !.g.rejected = "zero"], "DROP_INVALID_TC_BUFFER", "0", FALSE)
        ELSE IF IS_ERR(e.pol) \/ e.pol = "CTX_ACT_REDIRECT"
          THEN H(Applied(y, ct_buffer, from_host_raw), e.pol, "0", FALSE)
        ELSE Route(Applied(y, ct_buffer, from_host_raw))
      Cont(y, from_host_raw) ==
        IF cfg.hostfw /\ NeedHostfw(from_host_raw) THEN HostFw(y, y.b4, from_host_raw)
        ELSE Route(y)
  IN
  IF p.short THEN H(x, "DROP_INVALID", "0", FALSE)
  ELSE Cont(IF cfg.hostfw THEN ctx_load_and_clear_meta(x, "CB_FROM_HOST") ELSE x,
            Meta(x, "CB_FROM_HOST"))

tail_handle_ipv4_cont(x, p, from_host, e) ==
  LET Out(r, src_sec_identity) ==
        IF IS_ERR(r.ret)
          THEN send_drop_notify_error_ext(r.x, src_sec_identity, r.ret, r.ext_err)
        ELSE Return(r.x, r.ret)
      Dmac(h) ==
        IF from_host /\ h.ret = "CTX_ACT_OK"
          THEN rewrite_dmac_to_host([h.x EXCEPT !.g.cont_ret = h.ret], e.dmac_ok)
        ELSE [h EXCEPT !.x.g.cont_ret = h.ret]
      Run(src_sec_identity) ==
        Out(Dmac(handle_ipv4_cont([ctx_load_and_clear_meta(x, "CB_SRC_LABEL")
                                     EXCEPT !.g.cont_ran = TRUE,
                                            !.g.cont_id = src_sec_identity],
                                  p, src_sec_identity, from_host, e)),
            src_sec_identity)
  IN Run(Meta(x, "CB_SRC_LABEL"))

-----------------------------------------------------------------------------
(* IPv4: pre-check phase *)

\* fault: the result of map_update_elem() is not checked
update_tail_call_buffer4_unchecked(y, ct_buffer, upd_ok) ==
  IF ~upd_ok THEN H(y, "CTX_ACT_OK", "0", FALSE)
  ELSE H([y EXCEPT !.b4 = ct_buffer], "CTX_ACT_OK", "0", FALSE)

\* map_update_elem(&cilium_tail_call_buffer4, &zero, &ct_buffer, 0) and the
\* check of its result
update_tail_call_buffer4(y, ct_buffer, upd_ok) ==
  IF ~upd_ok THEN H(y, "DROP_INVALID_TC_BUFFER", "0", FALSE)
  ELSE H([y EXCEPT !.b4 = ct_buffer], "CTX_ACT_OK", "0", FALSE)

handle_ipv4(x, p, secctx, ipcache_srcid, from_host, e) ==
  LET ct_buffer == [saddr |-> p.saddr,
                    ret |-> e.ct_ret, w |-> p.cpu, fresh |-> TRUE]
      lookup == IF from_host THEN e.lk_need
                ELSE IF ~e.skip_host_fw THEN e.lk_need ELSE FALSE
      need_hostfw == lookup
      is_host_id == from_host /\ lookup /\ secctx = HOST_ID
      flags == (IF need_hostfw THEN FROM_HOST_FLAG_NEED_HOSTFW ELSE 0)
               + (IF is_host_id THEN FROM_HOST_FLAG_HOST_ID ELSE 0)
      \* history: the result the pre-check computed, and whether storing it failed
      Noted(y) ==
        [y EXCEPT !.g.pre = IF need_hostfw
                            THEN [set |-> TRUE, saddr |-> ct_buffer.saddr,
                                  ret |-> ct_buffer.ret]
                            ELSE @,
                  !.g.store_failed = need_hostfw /\ ~e.upd_ok]
      Flags(u) ==
        IF IS_ERR(u.ret) THEN u
        ELSE H(ctx_store_meta(u.x, "CB_FROM_HOST", flags), "CTX_ACT_OK", "0", FALSE)
      HostFw(y) ==
        IF ~cfg.hostfw THEN H(y, "CTX_ACT_OK", "0", FALSE)
        ELSE IF lookup /\ IS_ERR(ct_buffer.ret) THEN H(y, ct_buffer.ret, "0", FALSE)
        ELSE IF need_hostfw
          THEN Flags(update_tail_call_buffer4(Noted(y), ct_buffer, e.upd_ok))
        ELSE Flags(H(Noted(y), "CTX_ACT_OK", "0", FALSE))
  IN
  IF p.short THEN H(x, "DROP_INVALID", "0", FALSE)
  ELSE IF ~cfg.frag4 /\ p.frag = "yes" THEN H(x, "DROP_FRAG_NOSUPPORT", "0", FALSE)
  ELSE IF cfg.nodeport /\ ~from_host THEN
    IF e.np = "NAT_46X64_RECIRC"
      THEN tail_call_internal(ctx_store_meta([x EXCEPT !.g.lb_ran = TRUE],
                                             "CB_SRC_LABEL", secctx),
                              "tail_handle_ipv6_from_netdev", e.tc_ok, "recirc")
    ELSE IF IS_ERR(e.np) \/ e.np = "CTX_ACT_REDIRECT"
      THEN H([x EXCEPT !.g.lb_ran = TRUE], e.np, "0", FALSE)
    ELSE IF e.np = "punt" THEN H([x EXCEPT !.g.lb_ran = TRUE], "CTX_ACT_OK", "0", TRUE)
    ELSE HostFw([x EXCEPT !.g.lb_ran = TRUE])
  ELSE HostFw(x)

\* fault: CB_SRC_LABEL, cleared by the load, is not stored again for the
\* continuation
tail_handle_ipv4_no_restore(x, p, ipcache_srcid, from_host, e) ==
  LET Out(r, src_sec_identity) ==
        IF r.next # "none" THEN TailCalled(r.x, r.next)
        ELSE IF IS_ERR(r.ret)
          THEN send_drop_notify_error_ext(r.x, src_sec_identity, r.ret, r.ext_err)
        ELSE Return(r.x, r.ret)
      Inline(r) == H(r.x, r.ret, "0", FALSE)
      Cont(y) ==
        IF cfg.hostfw
          THEN tail_call_internal(y, IF from_host THEN "tail_handle_ipv4_cont_from_host"
                                     ELSE "tail_handle_ipv4_cont_from_netdev",
                                  e.tc_ok, "cont")
        ELSE Inline(tail_handle_ipv4_cont(y, p, from_host, e))
      Chain(h, src_sec_identity) ==
        IF h.next = "none" /\ h.ret = "CTX_ACT_OK" /\ ~h.punt THEN Cont(h.x)
        ELSE h
      Run(src_sec_identity) ==
        Out(Chain(handle_ipv4(ctx_load_and_clear_meta(x, "CB_SRC_LABEL"), p,
                              src_sec_identity, ipcache_srcid, from_host, e),
                  src_sec_identity),
            src_sec_identity)
  IN Run(Meta(x, "CB_SRC_LABEL"))

\* invoke_tailcall_if(is_defined(ENABLE_HOST_FIREWALL), CILIUM_CALL_IPV4_CONT_*, ...)
tail_handle_ipv4(x, p, ipcache_srcid, from_host, e) ==
  LET Out(r, src_sec_identity) ==
        IF r.next # "none" THEN TailCalled(r.x, r.next)
        ELSE IF IS_ERR(r.ret)
          THEN send_drop_notify_error_ext(r.x, src_sec_identity, r.ret, r.ext_err)
        ELSE Return(r.x, r.ret)
      Inline(r) == H(r.x, r.ret, "0", FALSE)
      Cont(y) ==
        IF cfg.hostfw
          THEN tail_call_internal(y, IF from_host THEN "tail_handle_ipv4_cont_from_host"
                                     ELSE "tail_handle_ipv4_cont_from_netdev",
                                  e.tc_ok, "cont")
        ELSE Inline(tail_handle_ipv4_cont(y, p, from_host, e))
      Chain(h, src_sec_identity) ==
        IF h.next = "none" /\ h.ret = "CTX_ACT_OK" /\ ~h.punt
          THEN Cont(ctx_store_meta(h.x, "CB_SRC_LABEL", src_sec_identity))
        ELSE h
      Run(src_sec_identity) ==
        Out(Chain(handle_ipv4(ctx_load_and_clear_meta(x, "CB_SRC_LABEL"), p,
                              src_sec_identity, ipcache_srcid, from_host, e),
                  src_sec_identity),
            src_sec_identity)
  IN Run(Meta(x, "CB_SRC_LABEL"))

\* fault: CB_IPCACHE_SRC_LABEL is read with ctx_load_meta()
tail_handle_ipv4_from_host_load(x, p, e) ==
  tail_handle_ipv4(IF cfg.hostfw THEN ctx_load_meta(x, "CB_IPCACHE_SRC_LABEL")
                   ELSE x,
                   p, IF cfg.hostfw THEN Meta(x, "CB_IPCACHE_SRC_LABEL") ELSE 0, TRUE, e)

tail_handle_ipv4_from_host(x, p, e) ==
  tail_handle_ipv4(IF cfg.hostfw THEN ctx_load_and_clear_meta(x, "CB_IPCACHE_SRC_LABEL")
                   ELSE x,
                   p, IF cfg.hostfw THEN Meta(x, "CB_IPCACHE_SRC_LABEL") ELSE 0, TRUE, e)

tail_handle_ipv4_from_netdev(x, p, e) == tail_handle_ipv4(x, p, 0, FALSE, e)

-----------------------------------------------------------------------------
(* IPv6: continuation phase *)

\* fault: ENDPOINT_MASK_HOST_DELIVERY is not tested
handle_ipv6_cont_deliver_all(x, p, secctx, from_host, e) ==
  LET from_proxy == from_host /\ p.from_proxy # "none"
      magic == IF from_host /\ p.from_proxy = "egress" THEN "MARK_MAGIC_PROXY_EGRESS"
               ELSE IF from_host /\ p.from_proxy = "ingress" THEN "MARK_MAGIC_PROXY_INGRESS"
               ELSE "MARK_MAGIC_IDENTITY"
      \* history: which routing decision returned, and with what
      R(y, kind, dst_id, ret) ==
        H([y EXCEPT !.g.route = [kind |-> kind, dst_id |-> dst_id, ret |-> ret]],
          ret, "0", FALSE)
      Route(y) ==
        IF ~cfg.host_routing /\ ~from_host THEN R(y, "stack", 0, "CTX_ACT_OK")
        ELSE
          LET ep == lookup_ip6_endpoint(p.daddr)
              info == lookup_ip6_remote_endpoint(p.daddr)
          IN IF ep.present THEN
               IF cfg.host_routing /\ ~from_host
                    /\ maybe_add_l2_hdr(TcFrame, ep.ifindex, TRUE, TcBuild).ret # "CTX_ACT_OK"
                 THEN R(y, "l2_hdr", 0,
                        maybe_add_l2_hdr(TcFrame, ep.ifindex, TRUE, TcBuild).ret)
               ELSE R([y EXCEPT !.g.effect = [kind |-> "local_delivery", id |-> secctx,
                                              magic |-> magic, to |-> ep.ifindex]],
                      "local_delivery", 0, e.ld)
             ELSE IF ~from_host THEN R(y, "external", 0, "CTX_ACT_OK")
             ELSE IF cfg.tunnel /\ ipv6_encap_wanted(info)
               THEN R([y EXCEPT !.g.effect = [kind |-> "encap", id |-> secctx,
                                              magic |-> "none", to |-> p.daddr]],
                      "encap", info.sec_identity, e.encap)
             ELSE IF ipv6_unroutable(info, from_proxy)
               THEN R(y, "unroutable", 0, "DROP_UNROUTABLE")
             ELSE R(y, "direct", info.sec_identity, "CTX_ACT_OK")
      \* the host policy is applied to the looked-up CT result
      Applied(y, ct_buffer, from_host_raw) ==
        [y EXCEPT !.g.applied = [set |-> TRUE, saddr |-> ct_buffer.saddr,
                                 ret |-> ct_buffer.ret, w |-> ct_buffer.w,
                                 fresh |-> ct_buffer.fresh,
                                 is_host_id |-> from_host /\ IsHostId(from_host_raw)],
                  !.g.hp_ret = e.pol]
      HostFw(y, ct_buffer, from_host_raw) ==
        IF ~e.lk_ok
          THEN H([y EXCEPT !.g.rejected = "missing"], "DROP_INVALID_TC_BUFFER", "0", FALSE)
        ELSE IF ct_buffer.saddr = 0
          THEN H([y EXCEPT !.g.rejected = "zero"], "DROP_INVALID_TC_BUFFER", "0", FALSE)
        ELSE IF IS_ERR(e.pol) \/ e.pol = "CTX_ACT_REDIRECT"
          THEN H(Applied(y, ct_buffer, from_host_raw), e.pol, "0", FALSE)
        ELSE Route(Applied(y, ct_buffer, from_host_raw))
      Cont(y, from_host_raw) ==
        IF cfg.hostfw /\ NeedHostfw(from_host_raw) THEN HostFw(y, y.b6, from_host_raw)
        ELSE Route(y)
  IN
  IF p.short THEN H(x, "DROP_INVALID", "0", FALSE)
  ELSE Cont(IF cfg.hostfw THEN ctx_load_and_clear_meta(x, "CB_FROM_HOST") ELSE x,
            Meta(x, "CB_FROM_HOST"))

handle_ipv6_cont(x, p, secctx, from_host, e) ==
  LET from_proxy == from_host /\ p.from_proxy # "none"
      magic == IF from_host /\ p.from_proxy = "egress" THEN "MARK_MAGIC_PROXY_EGRESS"
               ELSE IF from_host /\ p.from_proxy = "ingress" THEN "MARK_MAGIC_PROXY_INGRESS"
               ELSE "MARK_MAGIC_IDENTITY"
      \* history: which routing decision returned, and with what
      R(y, kind, dst_id, ret) ==
        H([y EXCEPT !.g.route = [kind |-> kind, dst_id |-> dst_id, ret |-> ret]],
          ret, "0", FALSE)
      Route(y) ==
        IF ~cfg.host_routing /\ ~from_host THEN R(y, "stack", 0, "CTX_ACT_OK")
        ELSE
          LET ep == lookup_ip6_endpoint(p.daddr)
              info == lookup_ip6_remote_endpoint(p.daddr)
          IN IF ep.present THEN
               IF ep.host_delivery THEN R(y, "host_delivery", 0, "CTX_ACT_OK")
               ELSE IF cfg.host_routing /\ ~from_host
                    /\ maybe_add_l2_hdr(TcFrame, ep.ifindex, TRUE, TcBuild).ret # "CTX_ACT_OK"
                 THEN R(y, "l2_hdr", 0,
                        maybe_add_l2_hdr(TcFrame, ep.ifindex, TRUE, TcBuild).ret)
               ELSE R([y EXCEPT !.g.effect = [kind |-> "local_delivery", id |-> secctx,
                                              magic |-> magic, to |-> ep.ifindex]],
                      "local_delivery", 0, e.ld)
             ELSE IF ~from_host THEN R(y, "external", 0, "CTX_ACT_OK")
             ELSE IF cfg.tunnel /\ ipv6_encap_wanted(info)
               THEN R([y EXCEPT !.g.effect = [kind |-> "encap", id |-> secctx,
                                              magic |-> "none", to |-> p.daddr]],
                      "encap", info.sec_identity, e.encap)
             ELSE IF ipv6_unroutable(info, from_proxy)
               THEN R(y, "unroutable", 0, "DROP_UNROUTABLE")
             ELSE R(y, "direct", info.sec_identity, "CTX_ACT_OK")
      \* the host policy is applied to the looked-up CT result
      Applied(y, ct_buffer, from_host_raw) ==
        [y EXCEPT !.g.applied = [set |-> TRUE, saddr |-> ct_buffer.saddr,
                                 ret |-> ct_buffer.ret, w |-> ct_buffer.w,
                                 fresh |-> ct_buffer.fresh,
                                 is_host_id |-> from_host /\ IsHostId(from_host_raw)],
                  !.g.hp_ret = e.pol]
      HostFw(y, ct_buffer, from_host_raw) ==
        IF ~e.lk_ok
          THEN H([y EXCEPT !.g.rejected = "missing"], "DROP_INVALID_TC_BUFFER", "0", FALSE)
        ELSE IF ct_buffer.saddr = 0
          THEN H([y EXCEPT !.g.rejected = "zero"], "DROP_INVALID_TC_BUFFER", "0", FALSE)
        ELSE IF IS_ERR(e.pol) \/ e.pol = "CTX_ACT_REDIRECT"
          THEN H(Applied(y, ct_buffer, from_host_raw), e.pol, "0", FALSE)
        ELSE Route(Applied(y, ct_buffer, from_host_raw))
      Cont(y, from_host_raw) ==
        IF cfg.hostfw /\ NeedHostfw(from_host_raw) THEN HostFw(y, y.b6, from_host_raw)
        ELSE Route(y)
  IN
  IF p.short THEN H(x, "DROP_INVALID", "0", FALSE)
  ELSE Cont(IF cfg.hostfw THEN ctx_load_and_clear_meta(x, "CB_FROM_HOST") ELSE x,
            Meta(x, "CB_FROM_HOST"))

\* fault: the destination MAC is rewritten whatever the continuation returned
tail_handle_ipv6_cont_dmac_always(x, p, from_host, e) ==
  LET Out(r, src_sec_identity) ==
        IF IS_ERR(r.ret)
          THEN send_drop_notify_error_ext(r.x, src_sec_identity, r.ret, r.ext_err)
        ELSE Return(r.x, r.ret)
      Dmac(h) ==
        IF from_host THEN rewrite_dmac_to_host([h.x EXCEPT !.g.cont_ret = h.ret], e.dmac_ok)
        ELSE [h EXCEPT !.x.g.cont_ret = h.ret]
      Run(src_sec_identity) ==
        Out(Dmac(handle_ipv6_cont([ctx_load_and_clear_meta(x, "CB_SRC_LABEL")
                                     EXCEPT !.g.cont_ran = TRUE,
                                            !.g.cont_id = src_sec_identity],
                                  p, src_sec_identity, from_host, e)),
            src_sec_identity)
  IN Run(Meta(x, "CB_SRC_LABEL"))

tail_handle_ipv6_cont(x, p, from_host, e) ==
  LET Out(r, src_sec_identity) ==
        IF IS_ERR(r.ret)
          THEN send_drop_notify_error_ext(r.x, src_sec_identity, r.ret, r.ext_err)
        ELSE Return(r.x, r.ret)
      Dmac(h) ==
        IF from_host /\ h.ret = "CTX_ACT_OK"
          THEN rewrite_dmac_to_host([h.x EXCEPT !.g.cont_ret = h.ret], e.dmac_ok)
        ELSE [h EXCEPT !.x.g.cont_ret = h.ret]
      Run(src_sec_identity) ==
        Out(Dmac(handle_ipv6_cont([ctx_load_and_clear_meta(x, "CB_SRC_LABEL")
                                     EXCEPT !.g.cont_ran = TRUE,
                                            !.g.cont_id = src_sec_identity],
                                  p, src_sec_identity, from_host, e)),
            src_sec_identity)
  IN Run(Meta(x, "CB_SRC_LABEL"))

-----------------------------------------------------------------------------
(* IPv6: pre-check phase.  e.icmp6 is "none" when the next header is not    *)
(* ICMPv6, else the result of icmp6_host_handle().                          *)

\* fault: the tuple is stored without the lookup's decision
update_tail_call_buffer6_no_ret(y, ct_buffer, upd_ok) ==
  IF ~upd_ok THEN H(y, "DROP_INVALID_TC_BUFFER", "0", FALSE)
  ELSE H([y EXCEPT !.b6 = [ct_buffer EXCEPT !.ret = "CT_NEW"]], "CTX_ACT_OK", "0", FALSE)

\* map_update_elem(&cilium_tail_call_buffer6, &zero, &ct_buffer, 0) and the
\* check of its result
update_tail_call_buffer6(y, ct_buffer, upd_ok) ==
  IF ~upd_ok THEN H(y, "DROP_INVALID_TC_BUFFER", "0", FALSE)
  ELSE H([y EXCEPT !.b6 = ct_buffer], "CTX_ACT_OK", "0", FALSE)

\* fault: fragments are not gated
handle_ipv6_no_frag_gate(x, p, secctx, ipcache_srcid, from_host, e) ==
  LET icmp == IF cfg.hostfw \/ ~from_host THEN e.icmp6 ELSE "none"
      skip_host_firewall == icmp = "SKIP_HOST_FIREWALL"
      ct_buffer == [saddr |-> p.saddr,
                    ret |-> e.ct_ret, w |-> p.cpu, fresh |-> TRUE]
      lookup == IF skip_host_firewall THEN FALSE
                ELSE IF from_host THEN e.lk_need
                ELSE IF ~e.skip_host_fw THEN e.lk_need ELSE FALSE
      need_hostfw == lookup
      is_host_id == from_host /\ lookup /\ secctx = HOST_ID
      flags == (IF need_hostfw THEN FROM_HOST_FLAG_NEED_HOSTFW ELSE 0)
               + (IF is_host_id THEN FROM_HOST_FLAG_HOST_ID ELSE 0)
      \* history: the result the pre-check computed, and whether storing it failed
      Noted(y) ==
        [y EXCEPT !.g.pre = IF need_hostfw
                            THEN [set |-> TRUE, saddr |-> ct_buffer.saddr,
                                  ret |-> ct_buffer.ret]
                            ELSE @,
                  !.g.store_failed = need_hostfw /\ ~e.upd_ok]
      Flags(u) ==
        IF IS_ERR(u.ret) THEN u
        ELSE H(ctx_store_meta(u.x, "CB_FROM_HOST", flags), "CTX_ACT_OK", "0", FALSE)
      HostFw(y) ==
        IF ~cfg.hostfw THEN H(y, "CTX_ACT_OK", "0", FALSE)
        ELSE IF lookup /\ IS_ERR(ct_buffer.ret) THEN H(y, ct_buffer.ret, "0", FALSE)
        ELSE IF need_hostfw
          THEN Flags(update_tail_call_buffer6(Noted(y), ct_buffer, e.upd_ok))
        ELSE Flags(H(Noted(y), "CTX_ACT_OK", "0", FALSE))
  IN
  IF p.short THEN H(x, "DROP_INVALID", "0", FALSE)
  ELSE IF IS_ERR(icmp) THEN H(x, icmp, "0", FALSE)
  ELSE IF cfg.nodeport /\ ~from_host THEN
    IF IS_ERR(e.np) \/ e.np = "CTX_ACT_REDIRECT"
      THEN H([x EXCEPT !.g.lb_ran = TRUE], e.np, "0", FALSE)
    ELSE IF e.np = "punt" THEN H([x EXCEPT !.g.lb_ran = TRUE], "CTX_ACT_OK", "0", TRUE)
    ELSE HostFw([x EXCEPT !.g.icmp_skip = skip_host_firewall, !.g.lb_ran = TRUE])
  ELSE HostFw([x EXCEPT !.g.icmp_skip = skip_host_firewall])

handle_ipv6(x, p, secctx, ipcache_srcid, from_host, e) ==
  LET icmp == IF cfg.hostfw \/ ~from_host THEN e.icmp6 ELSE "none"
      skip_host_firewall == icmp = "SKIP_HOST_FIREWALL"
      ct_buffer == [saddr |-> p.saddr,
                    ret |-> e.ct_ret, w |-> p.cpu, fresh |-> TRUE]
      lookup == IF skip_host_firewall THEN FALSE
                ELSE IF from_host THEN e.lk_need
                ELSE IF ~e.skip_host_fw THEN e.lk_need ELSE FALSE
      need_hostfw == lookup
      is_host_id == from_host /\ lookup /\ secctx = HOST_ID
      flags == (IF need_hostfw THEN FROM_HOST_FLAG_NEED_HOSTFW ELSE 0)
               + (IF is_host_id THEN FROM_HOST_FLAG_HOST_ID ELSE 0)
      \* history: the result the pre-check computed, and whether storing it failed
      Noted(y) ==
        [y EXCEPT !.g.pre = IF need_hostfw
                            THEN [set |-> TRUE, saddr |-> ct_buffer.saddr,
                                  ret |-> ct_buffer.ret]
                            ELSE @,
                  !.g.store_failed = need_hostfw /\ ~e.upd_ok]
      Flags(u) ==
        IF IS_ERR(u.ret) THEN u
        ELSE H(ctx_store_meta(u.x, "CB_FROM_HOST", flags), "CTX_ACT_OK", "0", FALSE)
      HostFw(y) ==
        IF ~cfg.hostfw THEN H(y, "CTX_ACT_OK", "0", FALSE)
        ELSE IF lookup /\ IS_ERR(ct_buffer.ret) THEN H(y, ct_buffer.ret, "0", FALSE)
        ELSE IF need_hostfw
          THEN Flags(update_tail_call_buffer6(Noted(y), ct_buffer, e.upd_ok))
        ELSE Flags(H(Noted(y), "CTX_ACT_OK", "0", FALSE))
  IN
  IF p.short THEN H(x, "DROP_INVALID", "0", FALSE)
  ELSE IF ~cfg.frag6 /\ p.frag = "bad" THEN H(x, "DROP_INVALID_EXTHDR", "0", FALSE)
  ELSE IF ~cfg.frag6 /\ p.frag = "yes" THEN H(x, "DROP_FRAG_NOSUPPORT", "0", FALSE)
  ELSE IF IS_ERR(icmp) THEN H(x, icmp, "0", FALSE)
  ELSE IF cfg.nodeport /\ ~from_host THEN
    IF IS_ERR(e.np) \/ e.np = "CTX_ACT_REDIRECT"
      THEN H([x EXCEPT !.g.lb_ran = TRUE], e.np, "0", FALSE)
    ELSE IF e.np = "punt" THEN H([x EXCEPT !.g.lb_ran = TRUE], "CTX_ACT_OK", "0", TRUE)
    ELSE HostFw([x EXCEPT !.g.icmp_skip = skip_host_firewall, !.g.lb_ran = TRUE])
  ELSE HostFw([x EXCEPT !.g.icmp_skip = skip_host_firewall])

\* invoke_tailcall_if(is_defined(ENABLE_HOST_FIREWALL), CILIUM_CALL_IPV6_CONT_*, ...)
tail_handle_ipv6(x, p, ipcache_srcid, from_host, e) ==
  LET Out(r, src_sec_identity) ==
        IF r.next # "none" THEN TailCalled(r.x, r.next)
        ELSE IF IS_ERR(r.ret)
          THEN send_drop_notify_error_ext(r.x, src_sec_identity, r.ret, r.ext_err)
        ELSE Return(r.x, r.ret)
      Inline(r) == H(r.x, r.ret, "0", FALSE)
      Cont(y) ==
        IF cfg.hostfw
          THEN tail_call_internal(y, IF from_host THEN "tail_handle_ipv6_cont_from_host"
                                     ELSE "tail_handle_ipv6_cont_from_netdev",
                                  e.tc_ok, "cont")
        ELSE Inline(tail_handle_ipv6_cont(y, p, from_host, e))
      Chain(h, src_sec_identity) ==
        IF h.next = "none" /\ h.ret = "CTX_ACT_OK" /\ ~h.punt
          THEN Cont(ctx_store_meta(h.x, "CB_SRC_LABEL", src_sec_identity))
        ELSE h
      Run(src_sec_identity) ==
        Out(Chain(handle_ipv6(ctx_load_and_clear_meta(x, "CB_SRC_LABEL"), p,
                              src_sec_identity, ipcache_srcid, from_host, e),
                  src_sec_identity),
            src_sec_identity)
  IN Run(Meta(x, "CB_SRC_LABEL"))

tail_handle_ipv6_from_host(x, p, e) ==
  tail_handle_ipv6(IF cfg.hostfw THEN ctx_load_and_clear_meta(x, "CB_IPCACHE_SRC_LABEL")
                   ELSE x,
                   p, IF cfg.hostfw THEN Meta(x, "CB_IPCACHE_SRC_LABEL") ELSE 0, TRUE, e)

tail_handle_ipv6_from_netdev(x, p, e) == tail_handle_ipv6(x, p, 0, FALSE, e)

-----------------------------------------------------------------------------
(* Entry points from-netdev and from-host *)

\* fault: the allow-list is not keyed by interface
allow_vlan_any_ifindex(ifindex, vlan_id) ==
  vlan_id \in {4000, 4001, 4003, 4004, 4005}

allow_vlan(ifindex, vlan_id) ==
  \/ ifindex = 116 /\ vlan_id \in {4000, 4001}
  \/ ifindex = 117 /\ vlan_id \in {4003, 4004, 4005}

\* inherit_identity_from_host(): identity and proxy origin carried in the mark
inherit_identity_from_host(p) ==
  CASE p.mark_magic \in {"MARK_MAGIC_PROXY_INGRESS", "MARK_MAGIC_PROXY_EGRESS",
                         "MARK_MAGIC_IDENTITY"} -> p.mark_identity
    [] p.mark_magic = "MARK_MAGIC_HOST" -> HOST_ID
    [] p.mark_magic = "MARK_MAGIC_ENCRYPT" /\ cfg.ipsec -> p.mark_identity
    [] OTHER -> IF p.proto = "ip4" THEN WORLD_IPV4_ID
                ELSE IF p.proto = "ip6" THEN WORLD_IPV6_ID
                ELSE WORLD_ID

\* fault: a failed tail call into the protocol handler is a plain drop
do_netdev_hard_drop(x0, p, identity, from_host, e) ==
  LET Out(t, src_id) ==
        IF t.next # "none" THEN TailCalled(t.x, t.next)
        ELSE send_drop_notify_error_ext(t.x, src_id, t.ret, t.ext_err)
      Labels(y, rs) ==
        [(IF cfg.hostfw /\ from_host
          THEN ctx_store_meta(ctx_store_meta(y, "CB_SRC_LABEL", rs.src_id),
                              "CB_IPCACHE_SRC_LABEL", rs.sec_identity)
          ELSE ctx_store_meta(y, "CB_SRC_LABEL", rs.src_id))
           EXCEPT !.g.resolved = [set |-> TRUE, id |-> rs.src_id,
                                  sec |-> rs.sec_identity, lookup |-> rs.lookup]]
      IpCase(y, rs, target) ==
        Out(tail_call_internal(Labels(y, rs), target, e.tc_ok, "entry"), rs.src_id)
      Body(x) ==
        CASE p.proto = "arp" -> Return(x, "CTX_ACT_OK")
          [] p.proto = "ip6" ->
               IF p.short THEN send_drop_notify_error(x, identity, "DROP_INVALID")
               ELSE IpCase(x, resolve_srcid_ipv6(p.saddr, identity, 0, from_host),
                           IF from_host THEN "tail_handle_ipv6_from_host"
                           ELSE "tail_handle_ipv6_from_netdev")
          [] p.proto = "ip4" ->
               IF p.short THEN send_drop_notify_error(x, identity, "DROP_INVALID")
               ELSE IpCase(x, resolve_srcid_ipv4(p.saddr, identity, 0, from_host),
                           IF from_host THEN "tail_handle_ipv4_from_host"
                           ELSE "tail_handle_ipv4_from_netdev")
          [] OTHER ->
               IF cfg.hostfw THEN send_drop_notify_error(x, identity, "DROP_UNKNOWN_L3")
               ELSE Return(x, "CTX_ACT_OK")
  IN Body(bpf_clear_meta(x0))

do_netdev(x0, p, identity, from_host, e) ==
  LET Out(t, src_id) ==
        IF t.next # "none" THEN TailCalled(t.x, t.next)
        ELSE send_drop_notify_error_with_exitcode_ext(t.x, src_id, t.ret, t.ext_err,
                                                      "CTX_ACT_OK")
      Labels(y, rs) ==
        [(IF cfg.hostfw /\ from_host
          THEN ctx_store_meta(ctx_store_meta(y, "CB_SRC_LABEL", rs.src_id),
                              "CB_IPCACHE_SRC_LABEL", rs.sec_identity)
          ELSE ctx_store_meta(y, "CB_SRC_LABEL", rs.src_id))
           EXCEPT !.g.resolved = [set |-> TRUE, id |-> rs.src_id,
                                  sec |-> rs.sec_identity, lookup |-> rs.lookup]]
      IpCase(y, rs, target) ==
        Out(tail_call_internal(Labels(y, rs), target, e.tc_ok, "entry"), rs.src_id)
      Body(x) ==
        CASE p.proto = "arp" -> Return(x, "CTX_ACT_OK")
          [] p.proto = "ip6" ->
               IF p.short THEN send_drop_notify_error(x, identity, "DROP_INVALID")
               ELSE IpCase(x, resolve_srcid_ipv6(p.saddr, identity, 0, from_host),
                           IF from_host THEN "tail_handle_ipv6_from_host"
                           ELSE "tail_handle_ipv6_from_netdev")
          [] p.proto = "ip4" ->
               IF p.short THEN send_drop_notify_error(x, identity, "DROP_INVALID")
               ELSE IpCase(x, resolve_srcid_ipv4(p.saddr, identity, 0, from_host),
                           IF from_host THEN "tail_handle_ipv4_from_host"
                           ELSE "tail_handle_ipv4_from_netdev")
          [] OTHER ->
               IF cfg.hostfw THEN send_drop_notify_error(x, identity, "DROP_UNKNOWN_L3")
               ELSE Return(x, "CTX_ACT_OK")
  IN Body(bpf_clear_meta(x0))

\* fault: a filtered VLAN frame is dropped without a drop notification
cil_from_netdev_silent_vlan(x, p, e) ==
  LET vlan_id == p.vlan_tci % 4096
  IN IF p.vlan_present /\ vlan_id # 0 THEN
       IF allow_vlan(p.ifindex, vlan_id) THEN Return(x, "CTX_ACT_OK")
       ELSE Return(x, "CTX_ACT_DROP")
     ELSE IF ~p.l2ok THEN
       IF cfg.hostfw THEN send_drop_notify_error(x, UNKNOWN_ID, "DROP_UNSUPPORTED_L2")
       ELSE Return(x, "CTX_ACT_OK")
     ELSE do_netdev(x, p, UNKNOWN_ID, FALSE, e)

cil_from_netdev(x, p, e) ==
  LET vlan_id == p.vlan_tci % 4096
  IN IF p.vlan_present /\ vlan_id # 0 THEN
       IF allow_vlan(p.ifindex, vlan_id) THEN Return(x, "CTX_ACT_OK")
       ELSE send_drop_notify_error(x, UNKNOWN_ID, "DROP_VLAN_FILTERED")
     ELSE IF ~p.l2ok THEN
       IF cfg.hostfw THEN send_drop_notify_error(x, UNKNOWN_ID, "DROP_UNSUPPORTED_L2")
       ELSE Return(x, "CTX_ACT_OK")
     \* ENABLE_IPSEC: do_decrypt() left MARK_MAGIC_DECRYPT in the mark
     ELSE IF cfg.ipsec /\ e.decrypt
       THEN Return([x EXCEPT !.g.decrypt = TRUE], "CTX_ACT_OK")
     ELSE do_netdev(x, p, UNKNOWN_ID, FALSE, e)

\* fault: a frame without supported L2 header is passed whatever the build
cil_from_host_pass_l2(x, p, e) ==
  IF ~p.l2ok THEN Return(x, "CTX_ACT_OK")
  ELSE do_netdev(x, p, inherit_identity_from_host(p), TRUE, e)

\* ENABLE_IPSEC && TUNNEL_MODE: the packet marked for encryption is sent to
\* the tunnel endpoint of its destination
do_netdev_encrypt_encap(p, e) ==
  LET ep == CASE p.proto = "ip6" -> lookup_ip6_remote_endpoint(p.daddr)
              [] p.proto = "ip4" -> lookup_ip4_remote_endpoint(p.daddr)
              [] OTHER -> NoInfo
  IN IF p.proto \in {"ip4", "ip6"} /\ p.short THEN "DROP_INVALID"
     ELSE IF ~ep.present \/ ~ep.flag_has_tunnel_ep THEN "DROP_NO_TUNNEL_ENDPOINT"
     ELSE e.encap

cil_from_host(x, p, e) ==
  IF ~p.l2ok THEN
    IF cfg.hostfw THEN send_drop_notify_error(x, HOST_ID, "DROP_UNSUPPORTED_L2")
    ELSE Return(x, "CTX_ACT_OK")
  ELSE IF cfg.ipsec /\ p.mark_magic = "MARK_MAGIC_ENCRYPT" THEN
    IF ~cfg.tunnel THEN Return(x, "CTX_ACT_OK")
    ELSE IF IS_ERR(do_netdev_encrypt_encap(p, e))
      THEN send_drop_notify_error(x, inherit_identity_from_host(p),
                                  do_netdev_encrypt_encap(p, e))
    ELSE Return([x EXCEPT !.g.effect = [kind |-> "encrypt_encap",
                                        id |-> inherit_identity_from_host(p),
                                        magic |-> "none", to |-> p.daddr]],
                do_netdev_encrypt_encap(p, e))
  ELSE do_netdev(x, p, inherit_identity_from_host(p), TRUE, e)

\* handle_to_netdev_ipv4(): the host firewall's egress policy, given the
\* identity resolve_srcid_ipv4() returns for a host-originating yes/no
handle_to_netdev_ipv4(x, p, src_sec_identity, e) ==
  IF p.short THEN H(x, "DROP_INVALID", "0", FALSE)
  ELSE H([x EXCEPT !.g.hp = "egress",
                   !.g.hp_src =
                     resolve_srcid_ipv4(p.saddr,
                                        IF src_sec_identity # HOST_ID THEN 0
                                        ELSE src_sec_identity,
                                        0, TRUE).src_id],
         e.pol, "0", FALSE)

\* fault: the egress policy is evaluated although icmp6_host_handle() said
\* SKIP_HOST_FIREWALL
handle_to_netdev_ipv6_no_skip(x, p, src_sec_identity, e) ==
  IF p.short THEN H(x, "DROP_INVALID", "0", FALSE)
  ELSE IF IS_ERR(e.icmp6) THEN H(x, e.icmp6, "0", FALSE)
  ELSE H([x EXCEPT !.g.icmp_skip = e.icmp6 = "SKIP_HOST_FIREWALL",
                   !.g.hp = "egress",
                   !.g.hp_src =
                     resolve_srcid_ipv6(p.saddr,
                                        IF src_sec_identity # HOST_ID THEN 0
                                        ELSE src_sec_identity,
                                        0, TRUE).src_id],
         e.pol, "0", FALSE)

handle_to_netdev_ipv6(x, p, src_sec_identity, e) ==
  IF p.short THEN H(x, "DROP_INVALID", "0", FALSE)
  ELSE IF e.icmp6 = "SKIP_HOST_FIREWALL"
    THEN H([x EXCEPT !.g.icmp_skip = TRUE], "CTX_ACT_OK", "0", FALSE)
  ELSE IF IS_ERR(e.icmp6) THEN H(x, e.icmp6, "0", FALSE)
  ELSE H([x EXCEPT !.g.hp = "egress",
                   !.g.hp_src =
                     resolve_srcid_ipv6(p.saddr,
                                        IF src_sec_identity # HOST_ID THEN 0
                                        ELSE src_sec_identity,
                                        0, TRUE).src_id],
         e.pol, "0", FALSE)

\* fault: the egress gateway does not look at the host firewall's verdict
cil_to_netdev_egw_unguarded(x0, p, e) ==
  LET magic == p.mark_magic
      src0 ==
        CASE magic \in {"MARK_MAGIC_HOST", "MARK_MAGIC_OVERLAY", "MARK_MAGIC_WG_ENCRYPTED"} -> HOST_ID
          [] magic = "MARK_MAGIC_IDENTITY" -> p.mark_identity
          [] magic = "MARK_MAGIC_EGW_DONE" /\ cfg.egw -> p.mark_identity
          [] OTHER -> UNKNOWN_ID
      vlan_id == p.vlan_tci % 4096
      St(h, src) == [h |-> h, src |-> src]
      \* the stage has produced its verdict
      Mark(h, name) == [h EXCEPT !.x.g.stages = Append(@, [s |-> name, ret |-> h.ret])]
      Out(s) ==
        IF IS_ERR(s.h.ret)
          THEN send_drop_notify_error_ext(s.h.x, s.src, s.h.ret, s.h.ext_err)
        ELSE Return(s.h.x, s.h.ret)
      \* ENABLE_HOST_FIREWALL
      HostFw(y) ==
        IF ~cfg.hostfw \/ p.snat_done THEN H(y, "CTX_ACT_OK", "0", FALSE)
        ELSE IF ~p.l2ok THEN Mark(H(y, "DROP_UNSUPPORTED_L2", "0", FALSE), "hostfw")
        ELSE CASE p.proto = "arp" -> Mark(H(y, "CTX_ACT_OK", "0", FALSE), "hostfw")
               [] p.proto = "ip6" -> Mark(handle_to_netdev_ipv6(y, p, src0, e), "hostfw")
               [] p.proto = "ip4" -> Mark(handle_to_netdev_ipv4(y, p, src0, e), "hostfw")
               [] OTHER -> Mark(H(y, "DROP_UNKNOWN_L3", "0", FALSE), "hostfw")
      \* host_egress_policy_hook() is CTX_ACT_OK; ENABLE_EGRESS_GATEWAY_COMMON:
      \* the source identity becomes that of the local endpoint owning saddr
      Egw(h) ==
        IF ~cfg.egw THEN St(h, src0)
        ELSE IF src0 = HOST_ID \/ magic = "MARK_MAGIC_EGW_DONE" THEN St(h, src0)
        ELSE IF p.proto \notin {"ip4", "ip6"} THEN St(h, src0)
        ELSE IF p.short THEN St(Mark(H(h.x, "DROP_INVALID", "0", FALSE), "egw"), src0)
        ELSE IF e.egw = "DROP_CT_INVALID_HDR"
          THEN St(Mark(H(h.x, e.egw, "0", FALSE), "egw"), src0)
        ELSE IF e.egw \in {"DROP_CT_UNKNOWN_PROTO", "is_reply"} THEN St(h, src0)
        ELSE St(Mark(H(h.x, e.egw, "0", FALSE), "egw"),
                IF (IF p.proto = "ip4" THEN lookup_ip4_endpoint(p.saddr)
                    ELSE lookup_ip6_endpoint(p.saddr)).present
                  THEN (IF p.proto = "ip4" THEN lookup_ip4_remote_endpoint(p.saddr)
                        ELSE lookup_ip6_remote_endpoint(p.saddr)).sec_identity
                ELSE src0)
      \* ENABLE_BANDWIDTH_MANAGER: edt_sched_departure(), whose drop is
      \* returned without notification
      Edt(s) ==
        IF s.h.ret # "CTX_ACT_OK" \/ ~cfg.bwm THEN s
        ELSE IF e.edt # "CTX_ACT_OK"
          THEN St(Mark(H([s.h.x EXCEPT !.g.rate_limited = TRUE], "CTX_ACT_DROP", "0", FALSE),
                       "edt"), s.src)
        ELSE St(Mark(s.h, "edt"), s.src)
      \* ENABLE_IPSEC: ipsec_maybe_redirect_to_encrypt() unless the mark
      \* is MARK_MAGIC_ENCRYPT
      Ipsec(s) ==
        IF s.h.ret # "CTX_ACT_OK" \/ ~cfg.ipsec THEN s
        ELSE IF magic # "MARK_MAGIC_ENCRYPT"
          THEN St(Mark(H(s.h.x, e.ipsec, "0", FALSE), "ipsec"), s.src)
        ELSE St([s.h EXCEPT !.x.g.trace_encrypted = TRUE], s.src)
      \* ENABLE_WIREGUARD: host_wg_encrypt_hook() unless ctx_mark_is_wireguard()
      Wg(s) ==
        IF s.h.ret # "CTX_ACT_OK" \/ ~cfg.wg THEN s
        ELSE IF magic # "MARK_MAGIC_WG_ENCRYPTED"
          THEN St(Mark(H(s.h.x, e.wg, "0", FALSE), "wg"), s.src)
        ELSE St([s.h EXCEPT !.x.g.trace_encrypted = TRUE], s.src)
      \* ENABLE_NODEPORT: handle_nat_fwd()
      NatFwd(s) ==
        IF s.h.ret # "CTX_ACT_OK" \/ ~cfg.nodeport THEN s
        ELSE IF ~p.snat_done /\ magic \notin {"MARK_MAGIC_OVERLAY", "MARK_MAGIC_WG_ENCRYPTED"}
          THEN St(Mark(H(s.h.x, e.nat_fwd, "0", FALSE), "nat"), s.src)
        ELSE s
      Body(y) ==
        IF p.vlan_present /\ vlan_id # 0 THEN
          IF allow_vlan(p.ifindex, vlan_id)
            THEN Return([y EXCEPT !.g.stages = <<[s |-> "vlan", ret |-> "CTX_ACT_OK"]>>],
                        "CTX_ACT_OK")
          ELSE send_drop_notify_error_ext(
                 [y EXCEPT !.g.stages = <<[s |-> "vlan", ret |-> "DROP_VLAN_FILTERED"]>>],
                 src0, "DROP_VLAN_FILTERED", "0")
        ELSE Out(NatFwd(Wg(Ipsec(Edt(Egw(HostFw(y)))))))
  IN Body(bpf_clear_meta(x0))

\* fault: host_wg_encrypt_hook() is called whatever the mark
cil_to_netdev_reencrypt(x0, p, e) ==
  LET magic == p.mark_magic
      src0 ==
        CASE magic \in {"MARK_MAGIC_HOST", "MARK_MAGIC_OVERLAY", "MARK_MAGIC_WG_ENCRYPTED"} -> HOST_ID
          [] magic = "MARK_MAGIC_IDENTITY" -> p.mark_identity
          [] magic = "MARK_MAGIC_EGW_DONE" /\ cfg.egw -> p.mark_identity
          [] OTHER -> UNKNOWN_ID
      vlan_id == p.vlan_tci % 4096
      St(h, src) == [h |-> h, src |-> src]
      \* the stage has produced its verdict
      Mark(h, name) == [h EXCEPT !.x.g.stages = Append(@, [s |-> name, ret |-> h.ret])]
      Out(s) ==
        IF IS_ERR(s.h.ret)
          THEN send_drop_notify_error_ext(s.h.x, s.src, s.h.ret, s.h.ext_err)
        ELSE Return(s.h.x, s.h.ret)
      \* ENABLE_HOST_FIREWALL
      HostFw(y) ==
        IF ~cfg.hostfw \/ p.snat_done THEN H(y, "CTX_ACT_OK", "0", FALSE)
        ELSE IF ~p.l2ok THEN Mark(H(y, "DROP_UNSUPPORTED_L2", "0", FALSE), "hostfw")
        ELSE CASE p.proto = "arp" -> Mark(H(y, "CTX_ACT_OK", "0", FALSE), "hostfw")
               [] p.proto = "ip6" -> Mark(handle_to_netdev_ipv6(y, p, src0, e), "hostfw")
               [] p.proto = "ip4" -> Mark(handle_to_netdev_ipv4(y, p, src0, e), "hostfw")
               [] OTHER -> Mark(H(y, "DROP_UNKNOWN_L3", "0", FALSE), "hostfw")
      \* host_egress_policy_hook() is CTX_ACT_OK; ENABLE_EGRESS_GATEWAY_COMMON:
      \* the source identity becomes that of the local endpoint owning saddr
      Egw(h) ==
        IF h.ret # "CTX_ACT_OK" \/ ~cfg.egw THEN St(h, src0)
        ELSE IF src0 = HOST_ID \/ magic = "MARK_MAGIC_EGW_DONE" THEN St(h, src0)
        ELSE IF p.proto \notin {"ip4", "ip6"} THEN St(h, src0)
        ELSE IF p.short THEN St(Mark(H(h.x, "DROP_INVALID", "0", FALSE), "egw"), src0)
        ELSE IF e.egw = "DROP_CT_INVALID_HDR"
          THEN St(Mark(H(h.x, e.egw, "0", FALSE), "egw"), src0)
        ELSE IF e.egw \in {"DROP_CT_UNKNOWN_PROTO", "is_reply"} THEN St(h, src0)
        ELSE St(Mark(H(h.x, e.egw, "0", FALSE), "egw"),
                IF (IF p.proto = "ip4" THEN lookup_ip4_endpoint(p.saddr)
                    ELSE lookup_ip6_endpoint(p.saddr)).present
                  THEN (IF p.proto = "ip4" THEN lookup_ip4_remote_endpoint(p.saddr)
                        ELSE lookup_ip6_remote_endpoint(p.saddr)).sec_identity
                ELSE src0)
      \* ENABLE_BANDWIDTH_MANAGER: edt_sched_departure(), whose drop is
      \* returned without notification
      Edt(s) ==
        IF s.h.ret # "CTX_ACT_OK" \/ ~cfg.bwm THEN s
        ELSE IF e.edt # "CTX_ACT_OK"
          THEN St(Mark(H([s.h.x EXCEPT !.g.rate_limited = TRUE], "CTX_ACT_DROP", "0", FALSE),
                       "edt"), s.src)
        ELSE St(Mark(s.h, "edt"), s.src)
      \* ENABLE_IPSEC: ipsec_maybe_redirect_to_encrypt() unless the mark
      \* is MARK_MAGIC_ENCRYPT
      Ipsec(s) ==
        IF s.h.ret # "CTX_ACT_OK" \/ ~cfg.ipsec THEN s
        ELSE IF magic # "MARK_MAGIC_ENCRYPT"
          THEN St(Mark(H(s.h.x, e.ipsec, "0", FALSE), "ipsec"), s.src)
        ELSE St([s.h EXCEPT !.x.g.trace_encrypted = TRUE], s.src)
      \* ENABLE_WIREGUARD: host_wg_encrypt_hook() unless ctx_mark_is_wireguard()
      Wg(s) ==
        IF s.h.ret # "CTX_ACT_OK" \/ ~cfg.wg THEN s
        ELSE IF TRUE
          THEN St(Mark(H(s.h.x, e.wg, "0", FALSE), "wg"), s.src)
        ELSE St([s.h EXCEPT !.x.g.trace_encrypted = TRUE], s.src)
      \* ENABLE_NODEPORT: handle_nat_fwd()
      NatFwd(s) ==
        IF s.h.ret # "CTX_ACT_OK" \/ ~cfg.nodeport THEN s
        ELSE IF ~p.snat_done /\ magic \notin {"MARK_MAGIC_OVERLAY", "MARK_MAGIC_WG_ENCRYPTED"}
          THEN St(Mark(H(s.h.x, e.nat_fwd, "0", FALSE), "nat"), s.src)
        ELSE s
      Body(y) ==
        IF p.vlan_present /\ vlan_id # 0 THEN
          IF allow_vlan(p.ifindex, vlan_id)
            THEN Return([y EXCEPT !.g.stages = <<[s |-> "vlan", ret |-> "CTX_ACT_OK"]>>],
                        "CTX_ACT_OK")
          ELSE send_drop_notify_error_ext(
                 [y EXCEPT !.g.stages = <<[s |-> "vlan", ret |-> "DROP_VLAN_FILTERED"]>>],
                 src0, "DROP_VLAN_FILTERED", "0")
        ELSE Out(NatFwd(Wg(Ipsec(Edt(Egw(HostFw(y)))))))
  IN Body(bpf_clear_meta(x0))

cil_to_netdev(x0, p, e) ==
  LET magic == p.mark_magic
      src0 ==
        CASE magic \in {"MARK_MAGIC_HOST", "MARK_MAGIC_OVERLAY", "MARK_MAGIC_WG_ENCRYPTED"} -> HOST_ID
          [] magic = "MARK_MAGIC_IDENTITY" -> p.mark_identity
          [] magic = "MARK_MAGIC_EGW_DONE" /\ cfg.egw -> p.mark_identity
          [] OTHER -> UNKNOWN_ID
      vlan_id == p.vlan_tci % 4096
      St(h, src) == [h |-> h, src |-> src]
      \* the stage has produced its verdict
      Mark(h, name) == [h EXCEPT !.x.g.stages = Append(@, [s |-> name, ret |-> h.ret])]
      Out(s) ==
        IF IS_ERR(s.h.ret)
          THEN send_drop_notify_error_ext(s.h.x, s.src, s.h.ret, s.h.ext_err)
        ELSE Return(s.h.x, s.h.ret)
      \* ENABLE_HOST_FIREWALL
      HostFw(y) ==
        IF ~cfg.hostfw \/ p.snat_done THEN H(y, "CTX_ACT_OK", "0", FALSE)
        ELSE IF ~p.l2ok THEN Mark(H(y, "DROP_UNSUPPORTED_L2", "0", FALSE), "hostfw")
        ELSE CASE p.proto = "arp" -> Mark(H(y, "CTX_ACT_OK", "0", FALSE), "hostfw")
               [] p.proto = "ip6" -> Mark(handle_to_netdev_ipv6(y, p, src0, e), "hostfw")
               [] p.proto = "ip4" -> Mark(handle_to_netdev_ipv4(y, p, src0, e), "hostfw")
               [] OTHER -> Mark(H(y, "DROP_UNKNOWN_L3", "0", FALSE), "hostfw")
      \* host_egress_policy_hook() is CTX_ACT_OK; ENABLE_EGRESS_GATEWAY_COMMON:
      \* the source identity becomes that of the local endpoint owning saddr
      Egw(h) ==
        IF h.ret # "CTX_ACT_OK" \/ ~cfg.egw THEN St(h, src0)
        ELSE IF src0 = HOST_ID \/ magic = "MARK_MAGIC_EGW_DONE" THEN St(h, src0)
        ELSE IF p.proto \notin {"ip4", "ip6"} THEN St(h, src0)
        ELSE IF p.short THEN St(Mark(H(h.x, "DROP_INVALID", "0", FALSE), "egw"), src0)
        ELSE IF e.egw = "DROP_CT_INVALID_HDR"
          THEN St(Mark(H(h.x, e.egw, "0", FALSE), "egw"), src0)
        ELSE IF e.egw \in {"DROP_CT_UNKNOWN_PROTO", "is_reply"} THEN St(h, src0)
        ELSE St(Mark(H(h.x, e.egw, "0", FALSE), "egw"),
                IF (IF p.proto = "ip4" THEN lookup_ip4_endpoint(p.saddr)
                    ELSE lookup_ip6_endpoint(p.saddr)).present
                  THEN (IF p.proto = "ip4" THEN lookup_ip4_remote_endpoint(p.saddr)
                        ELSE lookup_ip6_remote_endpoint(p.saddr)).sec_identity
                ELSE src0)
      \* ENABLE_BANDWIDTH_MANAGER: edt_sched_departure(), whose drop is
      \* returned without notification
      Edt(s) ==
        IF s.h.ret # "CTX_ACT_OK" \/ ~cfg.bwm THEN s
        ELSE IF e.edt # "CTX_ACT_OK"
          THEN St(Mark(H([s.h.x EXCEPT !.g.rate_limited = TRUE], "CTX_ACT_DROP", "0", FALSE),
                       "edt"), s.src)
        ELSE St(Mark(s.h, "edt"), s.src)
      \* ENABLE_IPSEC: ipsec_maybe_redirect_to_encrypt() unless the mark
      \* is MARK_MAGIC_ENCRYPT
      Ipsec(s) ==
        IF s.h.ret # "CTX_ACT_OK" \/ ~cfg.ipsec THEN s
        ELSE IF magic # "MARK_MAGIC_ENCRYPT"
          THEN St(Mark(H(s.h.x, e.ipsec, "0", FALSE), "ipsec"), s.src)
        ELSE St([s.h EXCEPT !.x.g.trace_encrypted = TRUE], s.src)
      \* ENABLE_WIREGUARD: host_wg_encrypt_hook() unless ctx_mark_is_wireguard()
      Wg(s) ==
        IF s.h.ret # "CTX_ACT_OK" \/ ~cfg.wg THEN s
        ELSE IF magic # "MARK_MAGIC_WG_ENCRYPTED"
          THEN St(Mark(H(s.h.x, e.wg, "0", FALSE), "wg"), s.src)
        ELSE St([s.h EXCEPT !.x.g.trace_encrypted = TRUE], s.src)
      \* ENABLE_NODEPORT: handle_nat_fwd()
      NatFwd(s) ==
        IF s.h.ret # "CTX_ACT_OK" \/ ~cfg.nodeport THEN s
        ELSE IF ~p.snat_done /\ magic \notin {"MARK_MAGIC_OVERLAY", "MARK_MAGIC_WG_ENCRYPTED"}
          THEN St(Mark(H(s.h.x, e.nat_fwd, "0", FALSE), "nat"), s.src)
        ELSE s
      Body(y) ==
        IF p.vlan_present /\ vlan_id # 0 THEN
          IF allow_vlan(p.ifindex, vlan_id)
            THEN Return([y EXCEPT !.g.stages = <<[s |-> "vlan", ret |-> "CTX_ACT_OK"]>>],
                        "CTX_ACT_OK")
          ELSE send_drop_notify_error_ext(
                 [y EXCEPT !.g.stages = <<[s |-> "vlan", ret |-> "DROP_VLAN_FILTERED"]>>],
                 src0, "DROP_VLAN_FILTERED", "0")
        ELSE Out(NatFwd(Wg(Ipsec(Edt(Egw(HostFw(y)))))))
  IN Body(bpf_clear_meta(x0))

-----------------------------------------------------------------------------
(* Entry point to-host and the host-policy-only fragments *)

MARK_MAGIC_TO_PROXY == 512

MARK_MAGIC_ENCRYPT == 3584

\* mark & MARK_MAGIC_HOST_MASK (0x0F00)
HostMask(mark) == ((mark \div 256) % 16) * 256

\* fault: the mark is used only when CB_PROXY_MAGIC holds nothing
cil_to_host_slot_first(x, p, e) ==
  LET \* traced: the previous program has sent the trace notification
      Out(y, src_id, ret, ext_err, traced) ==
        IF IS_ERR(ret) THEN send_drop_notify_error_ext(y, src_id, ret, ext_err)
        ELSE Return([y EXCEPT !.g.to_stack_trace = ~traced], ret)
      OutT(t, src_id) ==
        IF t.next # "none" THEN TailCalled(t.x, t.next)
        ELSE Out(t.x, src_id, t.ret, t.ext_err, FALSE)
      IpCase(y, src_id, target) ==
        OutT(tail_call_internal(ctx_store_meta(ctx_store_meta(y, "CB_SRC_LABEL", src_id),
                                               "CB_TRACED", 0),
                                target, e.tc_ok, "to_host_policy"), src_id)
      \* ENABLE_HOST_FIREWALL: validate_ethertype() and the switch on proto
      Switch(x2, src_id) ==
        IF ~p.l2ok THEN Out(x2, src_id, "DROP_UNSUPPORTED_L2", "0", FALSE)
        ELSE CASE p.proto = "arp" -> Out(x2, src_id, "CTX_ACT_OK", "0", FALSE)
               [] p.proto = "ip6" -> IpCase(x2, src_id, "tail_ipv6_host_policy_ingress")
               [] p.proto = "ip4" -> IpCase(x2, src_id, "tail_ipv4_host_policy_ingress")
               [] OTHER -> Out(x2, src_id, "DROP_UNKNOWN_L3", "0", FALSE)
      Dispatch(x1, src_id) ==
        IF ~cfg.hostfw THEN Out(x1, src_id, "CTX_ACT_OK", "0", FALSE)
        ELSE Switch([x1 EXCEPT !.g.dispatch = TRUE], src_id)
      \* ENABLE_IPSEC: with the encryption magic the mark becomes the magic
      \* and src_id is CB_ENCRYPT_IDENTITY; ENABLE_NODEPORT: handle_nat_fwd()
      \* for a packet whose mark is MARK_MAGIC_ENCRYPT
      Ipsec(x1, magic) ==
        LET enc == HostMask(magic) = MARK_MAGIC_ENCRYPT
            mark == IF enc THEN magic ELSE p.mark
            src_id == IF enc THEN p.mark_identity ELSE 0
        IN IF cfg.nodeport /\ HostMask(mark) = MARK_MAGIC_ENCRYPT /\ p.l2ok
                /\ IS_ERR(e.nat_fwd)
             THEN Out([x1 EXCEPT !.g.stages = <<[s |-> "nat", ret |-> e.nat_fwd]>>],
                      src_id, e.nat_fwd, "0", FALSE)
           ELSE Dispatch(x1, src_id)
      Body(x1, magic) ==
        IF magic % 65536 = MARK_MAGIC_TO_PROXY THEN
          Out([ctx_store_meta(x1, "CB_PROXY_MAGIC", 0)
                 EXCEPT !.g.effect = [kind |-> "proxy", id |-> 0, magic |-> "none",
                                      to |-> magic \div 65536]],
              0, e.proxy, "0", TRUE)
        ELSE IF cfg.ipsec THEN Ipsec(x1, magic)
        ELSE Dispatch(x1, 0)
  IN Body(ctx_load_meta(x, "CB_PROXY_MAGIC"),
          IF HostMask(p.mark) = MARK_MAGIC_TO_PROXY /\ Meta(x, "CB_PROXY_MAGIC") = 0
            THEN p.mark
          ELSE IF cfg.ipsec /\ HostMask(p.mark) = MARK_MAGIC_ENCRYPT THEN p.mark
          ELSE Meta(x, "CB_PROXY_MAGIC"))

cil_to_host(x, p, e) ==
  LET \* traced: the previous program has sent the trace notification
      Out(y, src_id, ret, ext_err, traced) ==
        IF IS_ERR(ret) THEN send_drop_notify_error_ext(y, src_id, ret, ext_err)
        ELSE Return([y EXCEPT !.g.to_stack_trace = ~traced], ret)
      OutT(t, src_id) ==
        IF t.next # "none" THEN TailCalled(t.x, t.next)
        ELSE Out(t.x, src_id, t.ret, t.ext_err, FALSE)
      IpCase(y, src_id, target) ==
        OutT(tail_call_internal(ctx_store_meta(ctx_store_meta(y, "CB_SRC_LABEL", src_id),
                                               "CB_TRACED", 0),
                                target, e.tc_ok, "to_host_policy"), src_id)
      \* ENABLE_HOST_FIREWALL: validate_ethertype() and the switch on proto
      Switch(x2, src_id) ==
        IF ~p.l2ok THEN Out(x2, src_id, "DROP_UNSUPPORTED_L2", "0", FALSE)
        ELSE CASE p.proto = "arp" -> Out(x2, src_id, "CTX_ACT_OK", "0", FALSE)
               [] p.proto = "ip6" -> IpCase(x2, src_id, "tail_ipv6_host_policy_ingress")
               [] p.proto = "ip4" -> IpCase(x2, src_id, "tail_ipv4_host_policy_ingress")
               [] OTHER -> Out(x2, src_id, "DROP_UNKNOWN_L3", "0", FALSE)
      Dispatch(x1, src_id) ==
        IF ~cfg.hostfw THEN Out(x1, src_id, "CTX_ACT_OK", "0", FALSE)
        ELSE Switch([x1 EXCEPT !.g.dispatch = TRUE], src_id)
      \* ENABLE_IPSEC: with the encryption magic the mark becomes the magic
      \* and src_id is CB_ENCRYPT_IDENTITY; ENABLE_NODEPORT: handle_nat_fwd()
      \* for a packet whose mark is MARK_MAGIC_ENCRYPT
      Ipsec(x1, magic) ==
        LET enc == HostMask(magic) = MARK_MAGIC_ENCRYPT
            mark == IF enc THEN magic ELSE p.mark
            src_id == IF enc THEN p.mark_identity ELSE 0
        IN IF cfg.nodeport /\ HostMask(mark) = MARK_MAGIC_ENCRYPT /\ p.l2ok
                /\ IS_ERR(e.nat_fwd)
             THEN Out([x1 EXCEPT !.g.stages = <<[s |-> "nat", ret |-> e.nat_fwd]>>],
                      src_id, e.nat_fwd, "0", FALSE)
           ELSE Dispatch(x1, src_id)
      Body(x1, magic) ==
        IF magic % 65536 = MARK_MAGIC_TO_PROXY THEN
          Out([ctx_store_meta(x1, "CB_PROXY_MAGIC", 0)
                 EXCEPT !.g.effect = [kind |-> "proxy", id |-> 0, magic |-> "none",
                                      to |-> magic \div 65536]],
              0, e.proxy, "0", TRUE)
        ELSE IF cfg.ipsec THEN Ipsec(x1, magic)
        ELSE Dispatch(x1, 0)
  IN Body(ctx_load_meta(x, "CB_PROXY_MAGIC"),
          IF HostMask(p.mark) = MARK_MAGIC_TO_PROXY THEN p.mark
          ELSE IF cfg.ipsec /\ HostMask(p.mark) = MARK_MAGIC_ENCRYPT THEN p.mark
          ELSE Meta(x, "CB_PROXY_MAGIC"))

tail_ipv6_host_policy_ingress(x, p, e) ==
  LET Out(y, src_id) ==
        IF IS_ERR(e.pol) THEN send_drop_notify_error_ext(y, src_id, e.pol, "0")
        ELSE Return(y, e.pol)
  IN Out([ctx_load_meta(ctx_load_meta(x, "CB_SRC_LABEL"), "CB_TRACED")
            EXCEPT !.g.hp = "ingress", !.g.hp_ret = e.pol],
         Meta(x, "CB_SRC_LABEL"))

tail_ipv4_host_policy_ingress(x, p, e) ==
  LET Out(y, src_id) ==
        IF IS_ERR(e.pol) THEN send_drop_notify_error_ext(y, src_id, e.pol, "0")
        ELSE Return(y, e.pol)
  IN Out([ctx_load_meta(ctx_load_meta(x, "CB_SRC_LABEL"), "CB_TRACED")
            EXCEPT !.g.hp = "ingress", !.g.hp_ret = e.pol],
         Meta(x, "CB_SRC_LABEL"))

-----------------------------------------------------------------------------
(* Entry point host-policy *)

to_host_from_lxc(x, p, e) ==
  LET Out(y, ret, ext_err) ==
        IF IS_ERR(ret) THEN send_drop_notify_error_ext(y, UNKNOWN_ID, ret, ext_err)
        ELSE Return(y, ret)
      OutT(t) ==
        IF t.next # "none" THEN TailCalled(t.x, t.next)
        ELSE Out(t.x, t.ret, t.ext_err)
      IpCase(target) ==
        OutT(tail_call_internal(ctx_store_meta(ctx_store_meta(x, "CB_SRC_LABEL", 0),
                                               "CB_TRACED", 1),
                                target, e.tc_ok, "to_host_policy"))
  IN
  IF ~p.l2ok THEN Out(x, "DROP_UNSUPPORTED_L2", "0")
  ELSE CASE p.proto = "arp" -> Out(x, "CTX_ACT_OK", "0")
         [] p.proto = "ip6" -> IpCase("tail_ipv6_host_policy_ingress")
         [] p.proto = "ip4" -> IpCase("tail_ipv4_host_policy_ingress")
         [] OTHER -> Out(x, "DROP_UNKNOWN_L3", "0")

from_host_to_lxc(x, p, e) ==
  IF ~p.l2ok THEN H(x, "DROP_UNSUPPORTED_L2", "0", FALSE)
  ELSE CASE p.proto = "arp" -> H(x, "CTX_ACT_OK", "0", FALSE)
         [] p.proto \in {"ip4", "ip6"} ->
              IF p.short THEN H(x, "DROP_INVALID", "0", FALSE)
              ELSE H([x EXCEPT !.g.hp = "egress", !.g.hp_src = HOST_ID, !.g.hp_ret = e.pol],
                     e.pol, "0", FALSE)
         [] OTHER -> H(x, "DROP_UNKNOWN_L3", "0", FALSE)

\* local_delivery_fill_meta(ctx, seclabel, false, from_host, false, 0)
local_delivery_fill_meta(x, seclabel, from_host) ==
  ctx_store_meta(ctx_store_meta(x, "CB_SRC_LABEL", seclabel),
                 "CB_FROM_HOST", IF from_host THEN 1 ELSE 0)

\* tail_call_policy(ctx, endpoint_id)
tail_call_policy(x, endpoint_id, tc_ok) ==
  IF tc_ok THEN HTail([x EXCEPT !.g.effect = [kind |-> "endpoint_policy", id |-> HOST_ID,
                                             magic |-> "none", to |-> endpoint_id]],
                      "endpoint_policy")
  ELSE H([x EXCEPT !.g.tc_failed = "ep_policy"], "DROP_EP_NOT_READY", "0", FALSE)

\* fault: a failed tail_call_policy() falls through without the drop
cil_host_policy_fallthrough(x, p, e) ==
  LET src_sec_identity == HOST_ID
      OutT(t) ==
        IF t.next # "none" THEN TailCalled(t.x, t.next)
        ELSE Return(t.x, "CTX_ACT_OK")
      Egress(h, lxc_id) ==
        IF IS_ERR(h.ret)
          THEN send_drop_notify_error_ext(h.x, src_sec_identity, h.ret, h.ext_err)
        ELSE OutT(tail_call_policy(local_delivery_fill_meta(h.x, src_sec_identity, TRUE),
                                   lxc_id, e.tc_ok))
      Body(y, from_host) ==
        IF from_host
          THEN Egress(from_host_to_lxc(ctx_load_meta(y, "CB_DST_ENDPOINT_ID"), p, e),
                      Meta(y, "CB_DST_ENDPOINT_ID"))
        ELSE to_host_from_lxc(y, p, e)
  IN
  IF ~cfg.hostfw THEN Return(x, "CTX_ACT_OK")
  ELSE Body(ctx_load_meta(x, "CB_FROM_HOST"), Meta(x, "CB_FROM_HOST") # 0)

\* fault: the endpoint's policy program is entered whatever the egress host
\* policy returned
cil_host_policy_ignore_egress(x, p, e) ==
  LET src_sec_identity == HOST_ID
      OutT(t) ==
        IF t.next # "none" THEN TailCalled(t.x, t.next)
        ELSE send_drop_notify_error_ext(t.x, src_sec_identity, t.ret, t.ext_err)
      Egress(h, lxc_id) ==
        OutT(tail_call_policy(local_delivery_fill_meta(h.x, src_sec_identity, TRUE),
                              lxc_id, e.tc_ok))
      Body(y, from_host) ==
        IF from_host
          THEN Egress(from_host_to_lxc(ctx_load_meta(y, "CB_DST_ENDPOINT_ID"), p, e),
                      Meta(y, "CB_DST_ENDPOINT_ID"))
        ELSE to_host_from_lxc(y, p, e)
  IN
  IF ~cfg.hostfw THEN Return(x, "CTX_ACT_OK")
  ELSE Body(ctx_load_meta(x, "CB_FROM_HOST"), Meta(x, "CB_FROM_HOST") # 0)

cil_host_policy(x, p, e) ==
  LET src_sec_identity == HOST_ID
      OutT(t) ==
        IF t.next # "none" THEN TailCalled(t.x, t.next)
        ELSE send_drop_notify_error_ext(t.x, src_sec_identity, t.ret, t.ext_err)
      Egress(h, lxc_id) ==
        IF IS_ERR(h.ret)
          THEN send_drop_notify_error_ext(h.x, src_sec_identity, h.ret, h.ext_err)
        ELSE OutT(tail_call_policy(local_delivery_fill_meta(h.x, src_sec_identity, TRUE),
                                   lxc_id, e.tc_ok))
      Body(y, from_host) ==
        IF from_host
          THEN Egress(from_host_to_lxc(ctx_load_meta(y, "CB_DST_ENDPOINT_ID"), p, e),
                      Meta(y, "CB_DST_ENDPOINT_ID"))
        ELSE to_host_from_lxc(y, p, e)
  IN
  IF ~cfg.hostfw THEN Return(x, "CTX_ACT_OK")
  ELSE Body(ctx_load_meta(x, "CB_FROM_HOST"), Meta(x, "CB_FROM_HOST") # 0)

-----------------------------------------------------------------------------
(* lib/fib.h: the FIB redirect engine                                      *)

BPF_FIB_LKUP_RET_SUCCESS == 0
BPF_FIB_LKUP_RET_NO_NEIGH == 7
BPF_FIB_MAP_NO_NEIGH == 100

\* (__s8)ret
S8(v) == ((v + 128) % 256) - 128

\* the frame as the engine sees it; redirect, neigh_map_read and dr record
\* what was done to it (observation only)
FibCtx0 ==
  [dmac |-> "frame_dmac", smac |-> "frame_smac", l3 |-> FALSE,
   redirect |-> [kind |-> "none", oif |-> 0, nh |-> [nh_family |-> "none", nh |-> 0]],
   neigh_map_read |-> FALSE,
   dr |-> [called |-> FALSE, fib_result |-> 0, oif |-> 0, dmac |-> "none",
           smac |-> "none", params |-> FALSE],
   l2 |-> "frame", lookups |-> 0, null_read |-> FALSE]

\* struct bpf_fib_lookup_padded = {0}, and a NULL fib_params
ZeroParams ==
  [present |-> TRUE, family |-> "none", ifindex |-> 0, dmac |-> "zero", smac |-> "zero",
   dst |-> 0]

NullParams == [ZeroParams EXCEPT !.present = FALSE]

\* fib_lookup(): the kernel fills in the egress interface, and the L2
\* addresses when the neighbour is resolved
fib_lookup(params, e) ==
  [ret |-> e.lookup_ret,
   params |-> IF e.lookup_ret = BPF_FIB_LKUP_RET_SUCCESS
                THEN [params EXCEPT !.ifindex = e.lookup_ifindex, !.dmac = "fib_dmac",
                                    !.smac = "fib_smac"]
              ELSE IF e.lookup_ret = BPF_FIB_LKUP_RET_NO_NEIGH
                THEN [params EXCEPT !.ifindex = e.lookup_ifindex]
              ELSE params]

fib_lookup_v4(params, ifindex, saddr, daddr, e) ==
  fib_lookup([params EXCEPT !.family = "AF_INET", !.ifindex = ifindex, !.dst = daddr], e)

fib_lookup_v6(params, ifindex, saddr, daddr, e) ==
  fib_lookup([params EXCEPT !.family = "AF_INET6", !.ifindex = ifindex, !.dst = daddr], e)

\* what a call leaves behind: the frame, the return value, *ext_err and *oif
FibOut(ctx, ret, ext_err, oif) ==
  [ctx |-> ctx, ret |-> ret, ext_err |-> ext_err, oif |-> oif]

ctx_redirect(ctx, oif, ext_err) ==
  FibOut([ctx EXCEPT !.redirect = [kind |-> "plain", oif |-> oif,
                                   nh |-> [nh_family |-> "none", nh |-> 0]]],
         "CTX_ACT_REDIRECT", ext_err, oif)

\* fault: the next hop of the lookup is not handed to redirect_neigh()
redirect_neigh_no_nh(ctx, oif, nh, ext_err) ==
  FibOut([ctx EXCEPT !.redirect = [kind |-> "neigh", oif |-> oif,
                                   nh |-> [nh_family |-> "NULL", nh |-> 0]]],
         "CTX_ACT_REDIRECT", ext_err, oif)

redirect_neigh(ctx, oif, nh, ext_err) ==
  FibOut([ctx EXCEPT !.redirect = [kind |-> "neigh", oif |-> oif, nh |-> nh]],
         "CTX_ACT_REDIRECT", ext_err, oif)

\* fault: the source address is not rewritten
fib_store_l2_dmac_only(ctx, dmac, smac, ext_err, oif, e) ==
  IF ~e.wr_d THEN FibOut(ctx, "DROP_WRITE_ERROR", ext_err, oif)
  ELSE ctx_redirect([ctx EXCEPT !.dmac = dmac], oif, ext_err)

\* eth_store_daddr(), eth_store_saddr(), then out_send
fib_store_l2(ctx, dmac, smac, ext_err, oif, e) ==
  IF ~e.wr_d THEN FibOut(ctx, "DROP_WRITE_ERROR", ext_err, oif)
  ELSE IF ~e.wr_s
    THEN FibOut([ctx EXCEPT !.dmac = dmac], "DROP_WRITE_ERROR", ext_err, oif)
  ELSE ctx_redirect([ctx EXCEPT !.dmac = dmac, !.smac = smac], oif, ext_err)

\* fault: the neighbour map is used although the caller did not allow it
fib_neigh_dmac_always(allow_neigh_map, e) ==
  IF e.neigh_entry THEN "neigh_dmac" ELSE "NULL"

\* dmac of the NO_NEIGH fallback: neigh_lookup_ip4/6 if allowed, else NULL
fib_neigh_dmac(allow_neigh_map, e) ==
  IF allow_neigh_map /\ e.neigh_entry THEN "neigh_dmac" ELSE "NULL"

fib_do_redirect(ctx0, needs_l2_check, fib_params, allow_neigh_map, fib_result, oif, ext_err, e) ==
  LET \* a read through fib_params; with a NULL pointer the read is recorded
      Rd(ctx) == [ctx EXCEPT !.null_read = @ \/ ~fib_params.present]
      NoNeigh(ctx, dmac) ==
        IF dmac = "NULL" THEN FibOut(ctx, "DROP_NO_FIB", BPF_FIB_MAP_NO_NEIGH, oif)
        ELSE fib_store_l2(ctx, dmac, "native_dev_mac", ext_err, oif, e)
      Switch(ctx) ==
        IF fib_result = BPF_FIB_LKUP_RET_SUCCESS
          THEN fib_store_l2(Rd(ctx), fib_params.dmac, fib_params.smac, ext_err, oif, e)
        ELSE IF fib_result = BPF_FIB_LKUP_RET_NO_NEIGH
          THEN IF e.resolver
                 THEN redirect_neigh(ctx, oif,
                                     IF fib_params.present
                                       THEN [nh_family |-> fib_params.family,
                                             nh |-> fib_params.dst]
                                     ELSE [nh_family |-> "NULL", nh |-> 0],
                                     ext_err)
               ELSE IF allow_neigh_map
                 THEN NoNeigh([Rd(ctx) EXCEPT !.neigh_map_read = TRUE],
                              fib_neigh_dmac(allow_neigh_map, e))
               ELSE NoNeigh(ctx, fib_neigh_dmac(allow_neigh_map, e))
        ELSE ctx_redirect(ctx, oif, ext_err)
      AfterL2(m) ==
        IF m.ret # "CTX_ACT_OK" THEN FibOut(m.ctx, m.ret, ext_err, oif)
        ELSE IF ~m.l2_hdr_required THEN ctx_redirect(m.ctx, oif, ext_err)
        ELSE Switch(m.ctx)
      Body(ctx) ==
        IF needs_l2_check THEN AfterL2(maybe_add_l2_hdr(ctx, oif, TRUE, e))
        ELSE Switch(ctx)
  IN Body([ctx0 EXCEPT !.dr = [called |-> TRUE, fib_result |-> fib_result, oif |-> oif,
                               dmac |-> fib_params.dmac, smac |-> fib_params.smac,
                               params |-> fib_params.present]])

\* fault: only an errno counts as a failed lookup
fib_lookup_failed_errno_only(ret) == ret < 0

\* the default: case of the switch on the lookup status
fib_lookup_failed(ret) ==
  ret # BPF_FIB_LKUP_RET_SUCCESS /\ ret # BPF_FIB_LKUP_RET_NO_NEIGH

\* fault: the route is looked up even with ENABLE_SKIP_FIB
fib_redirect_always_lookup(ctx, needs_l2_check, fib_params, use_neigh_map, ext_err, oif, e) ==
  LET Looked(lk) ==
        IF fib_lookup_failed(lk.ret)
          THEN FibOut([ctx EXCEPT !.lookups = @ + 1], "DROP_NO_FIB", S8(lk.ret), oif)
        ELSE fib_do_redirect([ctx EXCEPT !.lookups = @ + 1], needs_l2_check, lk.params,
                             use_neigh_map, lk.ret, lk.params.ifindex, ext_err, e)
  IN IF TRUE THEN Looked(fib_lookup(fib_params, e))
     ELSE fib_do_redirect(ctx, needs_l2_check, NullParams, use_neigh_map,
                          BPF_FIB_LKUP_RET_NO_NEIGH, e.direct_routing_dev_ifindex,
                          ext_err, e)

\* fault: the fast path is taken without asking for a neighbour resolver
fib_redirect_skip_no_resolver(ctx, needs_l2_check, fib_params, use_neigh_map, ext_err, oif, e) ==
  LET Looked(lk) ==
        IF fib_lookup_failed(lk.ret)
          THEN FibOut([ctx EXCEPT !.lookups = @ + 1], "DROP_NO_FIB", S8(lk.ret), oif)
        ELSE fib_do_redirect([ctx EXCEPT !.lookups = @ + 1], needs_l2_check, lk.params,
                             use_neigh_map, lk.ret, lk.params.ifindex, ext_err, e)
  IN IF ~e.skip_fib THEN Looked(fib_lookup(fib_params, e))
     ELSE fib_do_redirect(ctx, needs_l2_check, NullParams, use_neigh_map,
                          BPF_FIB_LKUP_RET_NO_NEIGH, e.direct_routing_dev_ifindex,
                          ext_err, e)

fib_redirect(ctx, needs_l2_check, fib_params, use_neigh_map, ext_err, oif, e) ==
  LET Looked(lk) ==
        IF fib_lookup_failed(lk.ret)
          THEN FibOut([ctx EXCEPT !.lookups = @ + 1], "DROP_NO_FIB", S8(lk.ret), oif)
        ELSE fib_do_redirect([ctx EXCEPT !.lookups = @ + 1], needs_l2_check, lk.params,
                             use_neigh_map, lk.ret, lk.params.ifindex, ext_err, e)
  IN IF ~e.skip_fib \/ ~e.resolver THEN Looked(fib_lookup(fib_params, e))
     ELSE fib_do_redirect(ctx, needs_l2_check, NullParams, use_neigh_map,
                          BPF_FIB_LKUP_RET_NO_NEIGH, e.direct_routing_dev_ifindex,
                          ext_err, e)

\* ipv4_l3() / ipv6_l3(): hop limit and L2 addresses of a routed packet
fib_l3(ctx, e) ==
  IF e.l3 = "CTX_ACT_OK" THEN [ctx |-> [ctx EXCEPT !.l3 = TRUE], ret |-> "CTX_ACT_OK"]
  ELSE [ctx |-> ctx, ret |-> e.l3]

fib_redirect_v6(ctx, ip6, needs_l2_check, allow_neigh_map, ext_err, oif, e) ==
  LET L3(l, fib_params, fib_result, oif_out, oif_now) ==
        IF l.ret # "CTX_ACT_OK" THEN FibOut(l.ctx, l.ret, ext_err, oif_now)
        ELSE fib_do_redirect(l.ctx, needs_l2_check, fib_params, allow_neigh_map,
                             fib_result, oif_out, ext_err, e)
      Looked(lk) ==
        IF fib_lookup_failed(lk.ret)
          THEN FibOut([ctx EXCEPT !.lookups = @ + 1], "DROP_NO_FIB", S8(lk.ret), oif)
        ELSE L3(fib_l3([ctx EXCEPT !.lookups = @ + 1], e), lk.params, lk.ret,
                lk.params.ifindex, lk.params.ifindex)
  IN IF ~e.skip_fib \/ ~e.resolver
       THEN Looked(fib_lookup_v6(ZeroParams, ip6.ifindex, ip6.saddr, ip6.daddr, e))
     ELSE L3(fib_l3(ctx, e), NullParams, BPF_FIB_LKUP_RET_NO_NEIGH,
             e.direct_routing_dev_ifindex, oif)

fib_redirect_v4(ctx, ip4, needs_l2_check, allow_neigh_map, ext_err, oif, e) ==
  LET L3(l, fib_params, fib_result, oif_out, oif_now) ==
        IF l.ret # "CTX_ACT_OK" THEN FibOut(l.ctx, l.ret, ext_err, oif_now)
        ELSE fib_do_redirect(l.ctx, needs_l2_check, fib_params, allow_neigh_map,
                             fib_result, oif_out, ext_err, e)
      Looked(lk) ==
        IF fib_lookup_failed(lk.ret)
          THEN FibOut([ctx EXCEPT !.lookups = @ + 1], "DROP_NO_FIB", S8(lk.ret), oif)
        ELSE L3(fib_l3([ctx EXCEPT !.lookups = @ + 1], e), lk.params, lk.ret,
                lk.params.ifindex, lk.params.ifindex)
  IN IF ~e.skip_fib \/ ~e.resolver
       THEN Looked(fib_lookup_v4(ZeroParams, ip4.ifindex, ip4.saddr, ip4.daddr, e))
     ELSE L3(fib_l3(ctx, e), NullParams, BPF_FIB_LKUP_RET_NO_NEIGH,
             e.direct_routing_dev_ifindex, oif)

\* no call of the engine is in progress
NoFib ==
  [fn |-> "none", needs_l2_check |-> FALSE, allow_neigh_map |-> FALSE,
   fib_result |-> 0, oif_in |-> 0,
   e |-> [lookup_ret |-> 0, lookup_ifindex |-> 0, resolver |-> FALSE,
          neigh_entry |-> FALSE, wr_d |-> TRUE, wr_s |-> TRUE, l3 |-> "CTX_ACT_OK",
          skip_fib |-> FALSE, direct_routing_dev_ifindex |-> 0,
          l3_devs |-> {}, eth_hlen |-> 14, head_ok |-> TRUE, proto_ok |-> TRUE],
   out |-> [ctx |-> FibCtx0, ret |-> "none", ext_err |-> 0, oif |-> 0]]

-----------------------------------------------------------------------------
(* Packets offered to the entry points *)

P0 ==
  [cpu |-> 0, entry |-> "none", proto |-> "ip4", l2ok |-> TRUE, short |-> FALSE,
   saddr |-> 0, daddr |-> 0, vlan_present |-> FALSE, vlan_tci |-> 0, ifindex |-> 0,
   mark_magic |-> "none", mark_identity |-> 0, from_proxy |-> "none", mark |-> 0,
   up_wrote |-> FALSE, up_magic |-> 0, lxc_from_host |-> 0, lxc_id |-> 0,
   snat_done |-> FALSE, frag |-> "no"]

SrcAddrs == {0, 1, 2, 5}
DstAddrs == {1, 2, 3, 4, 5, 6}

\* every source towards the local endpoint, every destination from the pod
SrcPkts ==
  {[P0 EXCEPT !.proto = f, !.saddr = s, !.daddr = 2] :
     f \in {"ip4", "ip6"}, s \in SrcAddrs}

DstPkts ==
  {[P0 EXCEPT !.proto = f, !.saddr = 2, !.daddr = d] :
     f \in {"ip4", "ip6"}, d \in DstAddrs}

IpPkts == SrcPkts \cup DstPkts

\* frames that are not a well-formed IPv4/IPv6 packet
OddPkts ==
  {[P0 EXCEPT !.proto = "arp"], [P0 EXCEPT !.proto = "unknown"],
   [P0 EXCEPT !.l2ok = FALSE, !.proto = "unknown"],
   [P0 EXCEPT !.proto = "ip4", !.short = TRUE],
   [P0 EXCEPT !.proto = "ip6", !.short = TRUE]}

VlanPkts ==
  {[P0 EXCEPT !.vlan_present = TRUE, !.vlan_tci = t, !.ifindex = i] :
     t \in {4000, 4002, 4003, 12193}, i \in {116, 117}}

\* fragments, and an IPv6 packet whose extension headers cannot be walked
FragPkts ==
  {[P0 EXCEPT !.proto = f, !.saddr = 5, !.daddr = 2, !.frag = "yes"] : f \in {"ip4", "ip6"}}
  \cup {[P0 EXCEPT !.proto = "ip6", !.saddr = 5, !.daddr = 2, !.frag = "bad"]}

NetdevPkts == IpPkts \cup OddPkts \cup VlanPkts \cup FragPkts

HostMarks ==
  {<<"MARK_MAGIC_HOST", 0, "none">>, <<"none", 0, "none">>,
   <<"MARK_MAGIC_IDENTITY", 1000, "none">>,
   <<"MARK_MAGIC_PROXY_INGRESS", 1000, "ingress">>,
   <<"MARK_MAGIC_PROXY_EGRESS", 1000, "egress">>}

HostPkts ==
  {[q EXCEPT !.mark_magic = m[1], !.mark_identity = m[2], !.from_proxy = m[3]] :
     q \in SrcPkts, m \in HostMarks}
  \cup {[q EXCEPT !.mark_magic = "MARK_MAGIC_HOST"] : q \in DstPkts \cup OddPkts \cup FragPkts}
  \cup {[q EXCEPT !.mark_magic = "MARK_MAGIC_PROXY_EGRESS", !.mark_identity = 2000,
                   !.from_proxy = "egress"] : q \in {d \in DstPkts : d.daddr \in {4, 5}}}
  \cup {[q EXCEPT !.mark_magic = "MARK_MAGIC_PROXY_INGRESS", !.mark_identity = 2000,
                   !.from_proxy = "ingress"] : q \in {d \in DstPkts : d.daddr = 4}}
  \cup {[q EXCEPT !.mark_magic = "MARK_MAGIC_ENCRYPT", !.mark_identity = 2000] :
          q \in {d \in DstPkts : d.daddr \in {3, 5}}}

\* to-netdev: tagged frames, and frames of the host, of a pod and unmarked
\* (up_magic: what an earlier user of the buffer left in CB_PROXY_MAGIC)
ToNetdevPkts ==
  {[q EXCEPT !.mark_magic = m, !.up_magic = 66048] :
     q \in VlanPkts \cup OddPkts, m \in {"MARK_MAGIC_HOST", "none"}}
  \cup {[P0 EXCEPT !.proto = "unknown", !.mark_magic = "MARK_MAGIC_HOST",
                    !.snat_done = TRUE]}
  \cup {[P0 EXCEPT !.proto = f, !.saddr = 1, !.daddr = 5, !.mark_magic = m[1],
                    !.mark_identity = m[2], !.snat_done = sd] :
          f \in {"ip4", "ip6"}, sd \in BOOLEAN,
          m \in {<<"MARK_MAGIC_HOST", 0>>, <<"MARK_MAGIC_IDENTITY", 2000>>, <<"none", 0>>,
                 <<"MARK_MAGIC_ENCRYPT", 0>>, <<"MARK_MAGIC_WG_ENCRYPTED", 0>>,
                 <<"MARK_MAGIC_EGW_DONE", 2000>>, <<"MARK_MAGIC_OVERLAY", 0>>}}

\* to-host: the mark, and the value found in CB_PROXY_MAGIC: stored for this
\* packet by the program that redirected it (up_wrote), or left in the
\* buffer's control block by whoever used it before
ToHostPkts ==
  {[q EXCEPT !.mark = mk, !.up_wrote = w[1], !.up_magic = w[2]] :
     q \in {[P0 EXCEPT !.proto = "ip4"], [P0 EXCEPT !.proto = "ip6"],
            [P0 EXCEPT !.proto = "arp"], [P0 EXCEPT !.proto = "unknown"],
            [P0 EXCEPT !.l2ok = FALSE, !.proto = "unknown"]},
     mk \in {0, 66048},
     w \in {<<FALSE, 0>>, <<FALSE, 66048>>, <<TRUE, 0>>, <<TRUE, 66048>>,
            <<TRUE, 131584>>}}
  \cup {[q EXCEPT !.mark = mk[1], !.up_magic = mk[2], !.mark_identity = 2000] :
          q \in {[P0 EXCEPT !.proto = "ip4"], [P0 EXCEPT !.proto = "arp"]},
          mk \in {<<3584, 0>>, <<3584, 66048>>, <<0, 3584>>}}

\* host-policy: the endpoint program stored CB_FROM_HOST and CB_DST_ENDPOINT_ID
HostPolicyPkts ==
  {[q EXCEPT !.lxc_from_host = fh, !.lxc_id = 7] :
     q \in {[P0 EXCEPT !.proto = "ip4"], [P0 EXCEPT !.proto = "ip6"]} \cup OddPkts,
     fh \in {0, 1}}

-----------------------------------------------------------------------------
(* Outcomes of the collaborators (maps, tail calls, conntrack, policy,     *)
(* load balancer, delivery)                                                *)

E0 ==
  [tc_ok |-> TRUE, np |-> "CTX_ACT_OK", skip_host_fw |-> FALSE, lk_need |-> FALSE,
   ct_ret |-> "CT_NEW", upd_ok |-> TRUE, icmp6 |-> "none", lk_ok |-> TRUE,
   pol |-> "CTX_ACT_OK", ld |-> "CTX_ACT_REDIRECT", encap |-> "CTX_ACT_REDIRECT",
   dmac_ok |-> TRUE, proxy |-> "CTX_ACT_OK", nat_fwd |-> "CTX_ACT_OK",
   edt |-> "CTX_ACT_OK", egw |-> "CTX_ACT_OK", ipsec |-> "CTX_ACT_OK",
   wg |-> "CTX_ACT_OK", decrypt |-> FALSE]

PolResults == {"CTX_ACT_OK", "CTX_ACT_REDIRECT", "DROP_POLICY_DENIED"}

EnvTc == {[E0 EXCEPT !.tc_ok = b] : b \in BOOLEAN}

EnvPol == {[E0 EXCEPT !.pol = r] : r \in PolResults}

\* delivery faults; a path consumes at most one of them
EnvRoute ==
  {E0, [E0 EXCEPT !.ld = "DROP_EP_NOT_READY"], [E0 EXCEPT !.encap = "DROP_WRITE_ERROR"],
   [E0 EXCEPT !.dmac_ok = FALSE]}

EnvCont ==
  {[E0 EXCEPT !.lk_ok = FALSE], [E0 EXCEPT !.pol = "DROP_POLICY_DENIED"],
   [E0 EXCEPT !.pol = "CTX_ACT_REDIRECT"]} \cup EnvRoute

EnvHostFw(from_host) ==
  IF ~cfg.hostfw THEN EnvRoute
  ELSE {E0, [E0 EXCEPT !.tc_ok = FALSE],
        [E0 EXCEPT !.lk_need = TRUE, !.ct_ret = "DROP_CT_INVALID_HDR"]}
       \cup (IF from_host THEN {} ELSE {[E0 EXCEPT !.skip_host_fw = TRUE, !.lk_need = TRUE]})
       \cup {[E0 EXCEPT !.lk_need = TRUE, !.ct_ret = r, !.upd_ok = FALSE] :
               r \in {"CT_NEW", "CT_REPLY"}}
       \cup {[E0 EXCEPT !.lk_need = TRUE, !.ct_ret = r, !.tc_ok = t] :
               r \in {"CT_NEW", "CT_REPLY"}, t \in BOOLEAN}

EnvPre(from_host, v6) ==
  (IF cfg.nodeport /\ ~from_host
   THEN {[E0 EXCEPT !.np = n] : n \in {"punt", "CTX_ACT_REDIRECT", "DROP_NO_SERVICE"}}
        \cup (IF v6 THEN {}
              ELSE {[E0 EXCEPT !.np = "NAT_46X64_RECIRC", !.tc_ok = t] : t \in BOOLEAN})
   ELSE {})
  \cup (IF v6 THEN {[E0 EXCEPT !.icmp6 = "DROP_INVALID"]} ELSE {})
  \cup {[e EXCEPT !.icmp6 = i] :
          e \in EnvHostFw(from_host),
          i \in IF v6 THEN {"none", "CTX_ACT_OK", "SKIP_HOST_FIREWALL"} ELSE {"none"}}

EnvToNetdev ==
  {[E0 EXCEPT !.pol = r] : r \in PolResults}
  \cup {[E0 EXCEPT !.icmp6 = i] : i \in {"SKIP_HOST_FIREWALL", "DROP_INVALID"}}
  \cup {[E0 EXCEPT !.icmp6 = "SKIP_HOST_FIREWALL", !.pol = "DROP_POLICY_DENIED"]}
  \cup {[E0 EXCEPT !.nat_fwd = r] : r \in {"CTX_ACT_REDIRECT", "DROP_NO_SERVICE"}}
  \cup {[E0 EXCEPT !.edt = "DROP_EDT_HORIZON"]}
  \cup {[E0 EXCEPT !.egw = r] :
          r \in {"CTX_ACT_REDIRECT", "DROP_NO_EGRESS_GATEWAY", "DROP_CT_INVALID_HDR",
                 "DROP_CT_UNKNOWN_PROTO", "is_reply"}}
  \cup {[E0 EXCEPT !.ipsec = r] : r \in {"CTX_ACT_REDIRECT", "DROP_INVALID"}}
  \cup {[E0 EXCEPT !.wg = r] : r \in {"CTX_ACT_REDIRECT", "DROP_INVALID"}}

EnvToHost ==
  {[E0 EXCEPT !.tc_ok = b, !.proxy = r] :
     b \in BOOLEAN, r \in {"CTX_ACT_OK", "DROP_PROXY_SET_FAILED"}}
  \cup {[E0 EXCEPT !.nat_fwd = "DROP_NO_SERVICE"]}

EnvHostPolicy ==
  {[E0 EXCEPT !.tc_ok = b, !.pol = r] : b \in BOOLEAN, r \in PolResults}

-----------------------------------------------------------------------------
(* State machine *)

NoG ==
  [notify |-> [sent |-> FALSE, reason |-> "none", ext_err |-> "0", src |-> 0],
   pre |-> [set |-> FALSE, saddr |-> 0, ret |-> "ZERO"],
   applied |-> [set |-> FALSE, saddr |-> 0, ret |-> "ZERO", w |-> 0, fresh |-> FALSE,
                is_host_id |-> FALSE],
   store_failed |-> FALSE, tc_failed |-> "none", rejected |-> "none",
   cont_ran |-> FALSE, cont_id |-> 0,
   effect |-> [kind |-> "none", id |-> 0, magic |-> "none", to |-> 0],
   dmac |-> FALSE, icmp_skip |-> FALSE,
   resolved |-> [set |-> FALSE, id |-> 0, sec |-> 0, lookup |-> FALSE], hp |-> "none", hp_src |-> 0, hp_ret |-> "none", lb_ran |-> FALSE, cont_ret |-> "none",
   route |-> [kind |-> "none", dst_id |-> 0, ret |-> "none"],
   rate_limited |-> FALSE, stages |-> <<>>, trace_encrypted |-> FALSE,
   dispatch |-> FALSE, to_stack_trace |-> FALSE, decrypt |-> FALSE]

\* datapath modes: tunnel with nodeport, host routing, plain stack routing;
\* IPsec is built only without the host firewall (bpf_host.c:1797-1799)
Configs ==
  {[hostfw |-> h, secctx_from_ipcache |-> s, nodeport |-> m[1],
    host_routing |-> m[2], tunnel |-> m[3], bwm |-> m[4],
    frag4 |-> m[5], frag6 |-> m[6], egw |-> m[7], ipsec |-> m[8] /\ ~h,
    wg |-> m[9]] :
     h \in BOOLEAN, s \in BOOLEAN,
     m \in {<<TRUE, FALSE, TRUE, TRUE, FALSE, FALSE, TRUE, TRUE, TRUE>>,
            <<FALSE, TRUE, FALSE, TRUE, TRUE, TRUE, FALSE, FALSE, FALSE>>,
            <<FALSE, FALSE, FALSE, FALSE, TRUE, FALSE, FALSE, FALSE, FALSE>>}}

\* the per-CPU array slot a program running on CPU c sees
\* (BPF_MAP_TYPE_PERCPU_ARRAY, max_entries 1, key 0)
\* fault: the map is a plain BPF_MAP_TYPE_ARRAY shared by all CPUs
BufCpu4_shared(c) == 1

BufCpu4(c) == c

BufCpu6(c) == c

\* slots handed from one fragment of this program to the next
HandoffSlots ==
  {"CB_SRC_LABEL", "CB_FROM_HOST", "CB_IPCACHE_SRC_LABEL", "CB_TRACED", "CB_PROXY_MAGIC"}

NoCb == [s \in Slots |-> [v |-> 0, w |-> FALSE, u |-> FALSE]]

Init ==
  /\ cfg \in Configs
  /\ pc = [c \in Cpus |-> "idle"]
  /\ pkt = [c \in Cpus |-> P0]
  /\ cb = [c \in Cpus |-> NoCb]
  /\ meta_log = [c \in Cpus |-> {}]
  /\ tail_call_buffer4 = [c \in Cpus |-> ZeroBuf]
  /\ tail_call_buffer6 = [c \in Cpus |-> ZeroBuf]
  /\ verdict = [c \in Cpus |-> "none"]
  /\ gh = [c \in Cpus |-> NoG]
  /\ nextId = 1
  /\ fib = NoFib

\* a value written by an earlier packet of CPU c is no longer fresh
Stale(c, b) == IF b.w = c THEN [b EXCEPT !.fresh = FALSE] ELSE b

\* ctx of a fragment that continues the packet on CPU c
Ctx(c) ==
  [cb |-> cb[c], log |-> {}, b4 |-> tail_call_buffer4[BufCpu4(c)],
   b6 |-> tail_call_buffer6[BufCpu6(c)], g |-> gh[c]]

\* ctx of a packet that enters on CPU c
BeginCtx(c) ==
  [cb |-> NoCb, log |-> {},
   b4 |-> Stale(c, tail_call_buffer4[BufCpu4(c)]),
   b6 |-> Stale(c, tail_call_buffer6[BufCpu6(c)]), g |-> NoG]

\* values the previous fragment stored that this fragment did not read
Skipped(c, r, entry) ==
  IF entry \/ pc[c] = "endpoint_policy" THEN {}
  ELSE {[op |-> "skip", slot |-> s, cleared |-> FALSE, over |-> FALSE, own |-> TRUE] :
          s \in {t \in HandoffSlots :
                   /\ cb[c][t].u
                   /\ ~\E ev \in r.x.log : ev.op = "load" /\ ev.slot = t}}

Commit(c, p, r, entry) ==
  /\ pkt' = [pkt EXCEPT ![c] = p]
  /\ cb' = [cb EXCEPT ![c] = r.x.cb]
  /\ meta_log' = [meta_log EXCEPT ![c] = r.x.log \cup Skipped(c, r, entry)]
  /\ tail_call_buffer4' =
       [i \in Cpus |-> IF i = BufCpu4(c) THEN r.x.b4
                       ELSE IF entry THEN Stale(c, tail_call_buffer4[i])
                       ELSE tail_call_buffer4[i]]
  /\ tail_call_buffer6' =
       [i \in Cpus |-> IF i = BufCpu6(c) THEN r.x.b6
                       ELSE IF entry THEN Stale(c, tail_call_buffer6[i])
                       ELSE tail_call_buffer6[i]]
  /\ gh' = [gh EXCEPT ![c] = r.x.g]
  /\ pc' = [pc EXCEPT ![c] = IF r.next = "none" THEN "done" ELSE r.next]
  /\ verdict' = [verdict EXCEPT ![c] = IF r.next = "none" THEN r.ret ELSE "none"]
  /\ UNCHANGED <<cfg, fib>>

\* packet q arrives at an entry point on CPU c
Arrive(q, c, entry) == [q EXCEPT !.cpu = c, !.entry = entry]

\* an entry point ran on CPU c for the new packet p with outcome r
Enter(c, p, r) ==
  /\ nextId' = nextId + 1
  /\ Commit(c, p, r, TRUE)

\* a tail-called fragment ran on CPU c with outcome r
Step(c, r) ==
  /\ UNCHANGED nextId
  /\ Commit(c, pkt[c], r, FALSE)

Idle(c) == pc[c] = "idle" /\ nextId <= MaxPackets

from_netdev(c) ==
  /\ Idle(c)
  /\ \E q \in NetdevPkts, e \in EnvTc \cup {[E0 EXCEPT !.decrypt = TRUE]} :
       LET p == Arrive(q, c, "from_netdev")
       IN Enter(c, p, cil_from_netdev(BeginCtx(c), p, e))

from_host(c) ==
  /\ Idle(c)
  /\ \E q \in HostPkts, e \in EnvTc :
       LET p == Arrive(q, c, "from_host")
       IN Enter(c, p, cil_from_host(BeginCtx(c), p, e))

to_netdev(c) ==
  /\ Idle(c)
  /\ \E q \in ToNetdevPkts :
       \E e \in IF q.vlan_present \/ q.proto \notin {"ip4", "ip6"}
                  THEN {E0, [E0 EXCEPT !.edt = "DROP_EDT_HORIZON"]}
                ELSE EnvToNetdev :
         LET p == Arrive(q, c, "to_netdev")
         IN Enter(c, p, cil_to_netdev([BeginCtx(c) EXCEPT
                                         !.cb["CB_PROXY_MAGIC"].v = p.up_magic],
                                      p, e))

\* the packet reaches cil_to_host with CB_PROXY_MAGIC as it was left
ToHostProg(x, p, e) ==
  cil_to_host(IF p.up_wrote
              THEN [ctx_store_meta(x, "CB_PROXY_MAGIC", p.up_magic) EXCEPT !.log = {}]
              ELSE [x EXCEPT !.cb["CB_PROXY_MAGIC"].v = p.up_magic], p, e)

to_host(c) ==
  /\ Idle(c)
  /\ \E q \in ToHostPkts, e \in EnvToHost :
       LET p == Arrive(q, c, "to_host")
       IN Enter(c, p, ToHostProg(BeginCtx(c), p, e))

\* the endpoint program stored CB_FROM_HOST and CB_DST_ENDPOINT_ID and
\* tail-called into cil_host_policy
HostPolicyProg(x, p, e) ==
  cil_host_policy([ctx_store_meta(ctx_store_meta(x, "CB_FROM_HOST", p.lxc_from_host),
                                  "CB_DST_ENDPOINT_ID", p.lxc_id)
                     EXCEPT !.log = {}], p, e)

host_policy(c) ==
  /\ Idle(c)
  /\ \E q \in HostPolicyPkts, e \in EnvHostPolicy :
       LET p == Arrive(q, c, "host_policy")
       IN Enter(c, p, HostPolicyProg(BeginCtx(c), p, e))

ipv4_from_host(c) ==
  /\ pc[c] = "tail_handle_ipv4_from_host"
  /\ \E e \in EnvPre(TRUE, FALSE) : Step(c, tail_handle_ipv4_from_host(Ctx(c), pkt[c], e))
ipv4_from_netdev(c) ==
  /\ pc[c] = "tail_handle_ipv4_from_netdev"
  /\ \E e \in EnvPre(FALSE, FALSE) : Step(c, tail_handle_ipv4_from_netdev(Ctx(c), pkt[c], e))
ipv6_from_host(c) ==
  /\ pc[c] = "tail_handle_ipv6_from_host"
  /\ \E e \in EnvPre(TRUE, TRUE) : Step(c, tail_handle_ipv6_from_host(Ctx(c), pkt[c], e))
ipv6_from_netdev(c) ==
  /\ pc[c] = "tail_handle_ipv6_from_netdev"
  /\ \E e \in EnvPre(FALSE, TRUE) : Step(c, tail_handle_ipv6_from_netdev(Ctx(c), pkt[c], e))

\* fault: a continuation that ends in a drop is attempted again
tail_handle_ipv4_cont_from_netdev_retry(x, p, e) ==
  LET Retry(r) ==
        IF r.ret = "CTX_ACT_DROP" THEN TailCalled(r.x, "tail_handle_ipv4_cont_from_netdev")
        ELSE r
  IN Retry(tail_handle_ipv4_cont(x, p, FALSE, e))

tail_handle_ipv4_cont_from_host(x, p, e) == tail_handle_ipv4_cont(x, p, TRUE, e)
tail_handle_ipv4_cont_from_netdev(x, p, e) == tail_handle_ipv4_cont(x, p, FALSE, e)
tail_handle_ipv6_cont_from_host(x, p, e) == tail_handle_ipv6_cont(x, p, TRUE, e)
tail_handle_ipv6_cont_from_netdev(x, p, e) == tail_handle_ipv6_cont(x, p, FALSE, e)

ipv4_cont_from_host(c) ==
  /\ pc[c] = "tail_handle_ipv4_cont_from_host"
  /\ \E e \in EnvCont : Step(c, tail_handle_ipv4_cont_from_host(Ctx(c), pkt[c], e))
ipv4_cont_from_netdev(c) ==
  /\ pc[c] = "tail_handle_ipv4_cont_from_netdev"
  /\ \E e \in EnvCont : Step(c, tail_handle_ipv4_cont_from_netdev(Ctx(c), pkt[c], e))
ipv6_cont_from_host(c) ==
  /\ pc[c] = "tail_handle_ipv6_cont_from_host"
  /\ \E e \in EnvCont : Step(c, tail_handle_ipv6_cont_from_host(Ctx(c), pkt[c], e))
ipv6_cont_from_netdev(c) ==
  /\ pc[c] = "tail_handle_ipv6_cont_from_netdev"
  /\ \E e \in EnvCont : Step(c, tail_handle_ipv6_cont_from_netdev(Ctx(c), pkt[c], e))

ipv4_host_policy_ingress(c) ==
  /\ pc[c] = "tail_ipv4_host_policy_ingress"
  /\ \E e \in EnvPol : Step(c, tail_ipv4_host_policy_ingress(Ctx(c), pkt[c], e))
ipv6_host_policy_ingress(c) ==
  /\ pc[c] = "tail_ipv6_host_policy_ingress"
  /\ \E e \in EnvPol : Step(c, tail_ipv6_host_policy_ingress(Ctx(c), pkt[c], e))

\* the endpoint's policy program (bpf_lxc) ends the chain with its own verdict
EndpointPolicyProg(x, p, e) == Return(x, e.pol)
endpoint_policy(c) ==
  /\ pc[c] = "endpoint_policy"
  /\ \E e \in EnvPol : Step(c, EndpointPolicyProg(Ctx(c), pkt[c], e))

\* the kernel is done with the packet; the CPU takes the next one
Finish(c) ==
  /\ pc[c] = "done"
  /\ pc' = [pc EXCEPT ![c] = "idle"]
  /\ pkt' = [pkt EXCEPT ![c] = P0]
  /\ verdict' = [verdict EXCEPT ![c] = "none"]
  /\ gh' = [gh EXCEPT ![c] = NoG]
  /\ meta_log' = [meta_log EXCEPT ![c] = {}]
  /\ cb' = [cb EXCEPT ![c] = NoCb]
  /\ UNCHANGED <<cfg, tail_call_buffer4, tail_call_buffer6, nextId, fib>>

Next ==
  \/ from_netdev(1)
  \/ from_host(1)
  \/ to_netdev(1)
  \/ to_host(1)
  \/ host_policy(1)
  \/ ipv4_from_host(1)
  \/ ipv4_from_netdev(1)
  \/ ipv6_from_host(1)
  \/ ipv6_from_netdev(1)
  \/ ipv4_cont_from_host(1)
  \/ ipv4_cont_from_netdev(1)
  \/ ipv6_cont_from_host(1)
  \/ ipv6_cont_from_netdev(1)
  \/ ipv4_host_policy_ingress(1)
  \/ ipv6_host_policy_ingress(1)
  \/ endpoint_policy(1)
  \/ Finish(1)

Spec == Init /\ [][Next]_vars

-----------------------------------------------------------------------------
(* Several CPUs, each running one packet to completion before the next:    *)
(* host firewall enabled, IPv4 and IPv6 packets both directions.           *)

SmpCfg ==
  [hostfw |-> TRUE, secctx_from_ipcache |-> FALSE, nodeport |-> FALSE,
   host_routing |-> TRUE, tunnel |-> FALSE, bwm |-> TRUE,
   frag4 |-> TRUE, frag6 |-> TRUE, egw |-> FALSE, ipsec |-> FALSE, wg |-> FALSE]

SmpNetdevPkts ==
  {[P0 EXCEPT !.proto = "ip4", !.saddr = s, !.daddr = 1] : s \in {2, 5}}
  \cup {[P0 EXCEPT !.proto = "ip6", !.saddr = 2, !.daddr = 1]}

SmpHostPkts ==
  {[P0 EXCEPT !.proto = f, !.saddr = 1, !.daddr = 2, !.mark_magic = "MARK_MAGIC_HOST"] :
     f \in {"ip4", "ip6"}}

EnvSmpPre == {[E0 EXCEPT !.lk_need = TRUE, !.ct_ret = r] : r \in {"CT_NEW", "CT_REPLY"}}

InitSMP == Init /\ cfg = SmpCfg

smp_from_netdev(c) ==
  /\ Idle(c)
  /\ \E q \in SmpNetdevPkts :
       LET p == Arrive(q, c, "from_netdev")
       IN Enter(c, p, cil_from_netdev(BeginCtx(c), p, E0))

smp_from_host(c) ==
  /\ Idle(c)
  /\ \E q \in SmpHostPkts :
       LET p == Arrive(q, c, "from_host")
       IN Enter(c, p, cil_from_host(BeginCtx(c), p, E0))

smp_ipv4_from_host(c) ==
  /\ pc[c] = "tail_handle_ipv4_from_host"
  /\ \E e \in EnvSmpPre : Step(c, tail_handle_ipv4_from_host(Ctx(c), pkt[c], e))
smp_ipv4_from_netdev(c) ==
  /\ pc[c] = "tail_handle_ipv4_from_netdev"
  /\ \E e \in EnvSmpPre : Step(c, tail_handle_ipv4_from_netdev(Ctx(c), pkt[c], e))
smp_ipv6_from_host(c) ==
  /\ pc[c] = "tail_handle_ipv6_from_host"
  /\ \E e \in EnvSmpPre : Step(c, tail_handle_ipv6_from_host(Ctx(c), pkt[c], e))
smp_ipv6_from_netdev(c) ==
  /\ pc[c] = "tail_handle_ipv6_from_netdev"
  /\ \E e \in EnvSmpPre : Step(c, tail_handle_ipv6_from_netdev(Ctx(c), pkt[c], e))
smp_ipv4_cont_from_host(c) ==
  /\ pc[c] = "tail_handle_ipv4_cont_from_host"
  /\ \E e \in {E0} : Step(c, tail_handle_ipv4_cont_from_host(Ctx(c), pkt[c], e))
smp_ipv4_cont_from_netdev(c) ==
  /\ pc[c] = "tail_handle_ipv4_cont_from_netdev"
  /\ \E e \in {E0} : Step(c, tail_handle_ipv4_cont_from_netdev(Ctx(c), pkt[c], e))
smp_ipv6_cont_from_host(c) ==
  /\ pc[c] = "tail_handle_ipv6_cont_from_host"
  /\ \E e \in {E0} : Step(c, tail_handle_ipv6_cont_from_host(Ctx(c), pkt[c], e))
smp_ipv6_cont_from_netdev(c) ==
  /\ pc[c] = "tail_handle_ipv6_cont_from_netdev"
  /\ \E e \in {E0} : Step(c, tail_handle_ipv6_cont_from_netdev(Ctx(c), pkt[c], e))

NextSMP ==
  \/ \E c \in Cpus : smp_from_netdev(c)
  \/ \E c \in Cpus : smp_from_host(c)
  \/ \E c \in Cpus : smp_ipv4_from_host(c)
  \/ \E c \in Cpus : smp_ipv4_from_netdev(c)
  \/ \E c \in Cpus : smp_ipv6_from_host(c)
  \/ \E c \in Cpus : smp_ipv6_from_netdev(c)
  \/ \E c \in Cpus : smp_ipv4_cont_from_host(c)
  \/ \E c \in Cpus : smp_ipv4_cont_from_netdev(c)
  \/ \E c \in Cpus : smp_ipv6_cont_from_host(c)
  \/ \E c \in Cpus : smp_ipv6_cont_from_netdev(c)
  \/ \E c \in Cpus : Finish(c)

SpecSMP == InitSMP /\ [][NextSMP]_vars

-----------------------------------------------------------------------------
(* Properties *)

Busy(c) == pc[c] \notin {"idle", "done"}

\* identity carried by the packet itself when it reaches do_netdev
InBand(p) == IF p.entry = "from_host" THEN inherit_identity_from_host(p) ELSE UNKNOWN_ID

TableInfo(p) ==
  IF p.proto = "ip6" THEN lookup_ip6_remote_endpoint(p.saddr)
  ELSE lookup_ip4_remote_endpoint(p.saddr)

\* C1: whenever the continuation hands a CT result to the host-policy apply
\* step, that result (tuple and decision) is the one the pre-check of the
\* same packet computed.
C1_RoundTrip ==
  \A c \in Cpus :
    gh[c].applied.set =>
      /\ gh[c].pre.set
      /\ gh[c].applied.saddr = gh[c].pre.saddr
      /\ gh[c].applied.ret = gh[c].pre.ret

C1_Witness ==
  \E c \in Cpus :
    /\ gh[c].applied.set
    /\ gh[c].applied.ret = "CT_REPLY"
    /\ pkt[c].proto = "ip6"
    /\ pc[c] = "done"

\* C2: when enforcement is needed and the write into the transfer buffer
\* fails, the packet is dropped with DROP_INVALID_TC_BUFFER, no continuation
\* fragment runs and nothing is delivered.
C2_FailClosed ==
  \A c \in Cpus :
    gh[c].store_failed =>
      /\ pc[c] = "done"
      /\ verdict[c] = "CTX_ACT_DROP"
      /\ gh[c].notify.sent
      /\ gh[c].notify.reason = "DROP_INVALID_TC_BUFFER"
      /\ ~gh[c].cont_ran
      /\ ~gh[c].applied.set
      /\ gh[c].effect.kind = "none"

C2_Witness ==
  \E c \in Cpus :
    /\ gh[c].store_failed
    /\ pc[c] = "done"
    /\ pkt[c].proto = "ip4"
    /\ verdict[c] = "CTX_ACT_DROP"

\* C3: in the continuation, a missing or zeroed transfer buffer is dropped
\* with DROP_INVALID_TC_BUFFER without evaluating host policy, and a buffer
\* holding the result the pre-check wrote is never rejected as zeroed.
C3_ZeroedOnlyIfUnwritten ==
  \A c \in Cpus :
    /\ gh[c].rejected # "none" =>
         /\ verdict[c] = "CTX_ACT_DROP"
         /\ gh[c].notify.reason = "DROP_INVALID_TC_BUFFER"
         /\ ~gh[c].applied.set
    /\ gh[c].rejected = "zero" => ~(gh[c].pre.set /\ ~gh[c].store_failed)

\* C4: with packets in flight on several CPUs, the result the apply phase
\* reads was written by the packet now running on that CPU, not by a packet
\* on another CPU nor by an earlier packet of the same CPU.
C4_PerCpuIsolation ==
  \A c \in Cpus :
    gh[c].applied.set => gh[c].applied.w = c /\ gh[c].applied.fresh

C4_Witness ==
  \E c, d \in Cpus :
    /\ c # d
    /\ gh[c].applied.set
    /\ pkt[c].proto = "ip4"
    /\ pkt[d].proto = "ip4"
    /\ gh[d].pre.set
    /\ Busy(d)
    /\ gh[d].pre.saddr # gh[c].pre.saddr

\* C5: a failed hand-off from a protocol handler to its continuation, from
\* to-host to the host-policy-only fragment, or from host-policy to the
\* endpoint policy program ends in a drop that carries a reason.
C5_FailedContinuationDrops ==
  \A c \in Cpus :
    gh[c].tc_failed \in {"cont", "to_host_policy", "ep_policy"} =>
      /\ pc[c] = "done"
      /\ verdict[c] = "CTX_ACT_DROP"
      /\ gh[c].notify.sent
      /\ gh[c].notify.reason \in {"DROP_MISSED_TAIL_CALL", "DROP_EP_NOT_READY"}

C5_Witness ==
  \E c \in Cpus :
    /\ gh[c].tc_failed = "ep_policy"
    /\ pkt[c].entry = "host_policy"
    /\ verdict[c] = "CTX_ACT_DROP"

\* C6: when do_netdev's tail call into the IPv4 or IPv6 handler fails, the
\* verdict is CTX_ACT_OK, for both directions and both families.
C6_EntryFailurePasses ==
  \A c \in Cpus :
    gh[c].tc_failed = "entry" => pc[c] = "done" /\ verdict[c] = "CTX_ACT_OK"

C6_Witness ==
  \E c \in Cpus :
    /\ gh[c].tc_failed = "entry"
    /\ pkt[c].entry = "from_host"
    /\ pkt[c].proto = "ip6"
    /\ gh[c].notify.reason = "DROP_MISSED_TAIL_CALL"

\* C7 as stated: a value written by one fragment is read by the next one
\* before any further write, and every read clears the slot.
C7_EveryReadClears ==
  \A c \in Cpus : \A ev \in meta_log[c] :
    /\ ev.op # "skip"
    /\ ev.op = "store" /\ ev.slot \in HandoffSlots => ~ev.over
    /\ ev.op = "load" /\ ev.slot \in HandoffSlots => ev.cleared

\* C7 amended: a value written by one fragment is read by the next one
\* before any further write; the from-netdev / from-host handler chain reads
\* with clearing, while to-host, the host-policy-only fragments and
\* host-policy read without clearing.
C7_HandOff ==
  \A c \in Cpus : \A ev \in meta_log[c] :
    /\ ev.op # "skip"
    /\ ev.op = "store" /\ ev.slot \in HandoffSlots => ~ev.over
    /\ ev.op = "load" /\ ev.slot \in HandoffSlots =>
         (ev.cleared <=> pkt[c].entry \in {"from_netdev", "from_host"})

C7_Witness ==
  \E c \in Cpus : \E ev \in meta_log[c] :
    /\ ev.op = "load"
    /\ ev.slot = "CB_IPCACHE_SRC_LABEL"
    /\ ev.cleared
    /\ pkt[c].proto = "ip4"

\* C8: every slot value a fragment reads was written earlier during the
\* processing of the same packet.
C8_NoLeak ==
  \A c \in Cpus : \A ev \in meta_log[c] : ev.op = "load" => ev.own

\* C9 as stated: a source address whose table identity is neither the host
\* nor reserved resolves to the table identity, whatever the in-band value,
\* when the direction is from-host or secctx_from_ipcache is set.
C9_AnyInBand ==
  \A c \in Cpus :
    LET p == pkt[c]
        info == TableInfo(p)
    IN (/\ gh[c].resolved.set
        /\ p.entry = "from_host" \/ cfg.secctx_from_ipcache
        /\ info.present
        /\ info.sec_identity # HOST_ID
        /\ ~identity_is_reserved(info.sec_identity))
       => gh[c].resolved.id = info.sec_identity

\* C9 amended: the same, for every reserved in-band identity value (a
\* non-reserved in-band identity, as carried by proxy traffic, is kept).
C9_ReservedInBand ==
  \A c \in Cpus :
    LET p == pkt[c]
        info == TableInfo(p)
    IN (/\ gh[c].resolved.set
        /\ p.entry = "from_host" \/ cfg.secctx_from_ipcache
        /\ info.present
        /\ info.sec_identity # HOST_ID
        /\ ~identity_is_reserved(info.sec_identity))
       => gh[c].resolved.id =
            IF identity_is_reserved(InBand(p)) THEN info.sec_identity ELSE InBand(p)

C9_Witness ==
  \E c \in Cpus :
    /\ gh[c].resolved.set
    /\ pkt[c].entry = "from_host"
    /\ pkt[c].proto = "ip4"
    /\ pkt[c].mark_magic = "MARK_MAGIC_HOST"
    /\ pkt[c].saddr = 2
    /\ gh[c].resolved.id = 2000

\* C10: from-host, or with secctx_from_ipcache set, the result is the
\* ipcache-derived identity; otherwise it is WORLD_IPV4_ID or WORLD_IPV6_ID
\* by family, whatever the source address, in-band value and table hold.
C10_FinalSelection ==
  \A c \in Cpus :
    LET p == pkt[c]
        info == TableInfo(p)
        derived == IF identity_is_reserved(InBand(p)) /\ info.present
                      /\ info.sec_identity # HOST_ID
                   THEN info.sec_identity ELSE InBand(p)
    IN gh[c].resolved.set =>
         gh[c].resolved.id =
           IF p.entry = "from_host" \/ cfg.secctx_from_ipcache THEN derived
           ELSE IF p.proto = "ip6" THEN WORLD_IPV6_ID ELSE WORLD_IPV4_ID

C10_Witness ==
  \E c \in Cpus :
    /\ gh[c].resolved.set
    /\ pkt[c].entry = "from_netdev"
    /\ ~cfg.secctx_from_ipcache
    /\ pkt[c].proto = "ip6"
    /\ pkt[c].saddr = 2
    /\ gh[c].resolved.id = WORLD_IPV6_ID


C12_VlanFilter ==
  \A c \in Cpus :
    LET p == pkt[c]
    IN (/\ p.entry \in {"from_netdev", "to_netdev"}
        /\ p.vlan_present /\ p.vlan_tci % 4096 # 0)
       => /\ pc[c] = "done"
          /\ ~gh[c].resolved.set
          /\ gh[c].effect.kind = "none" /\ ~gh[c].dmac
          /\ IF (p.ifindex = 116 /\ p.vlan_tci % 4096 \in {4000, 4001})
                \/ (p.ifindex = 117 /\ p.vlan_tci % 4096 \in {4003, 4004, 4005})
             THEN /\ verdict[c] = "CTX_ACT_OK"
                  /\ ~gh[c].notify.sent
                  /\ \A s \in Slots :
                       /\ ~cb[c][s].w
                       /\ cb[c][s].v = IF s = "CB_PROXY_MAGIC" THEN p.up_magic ELSE 0
             ELSE /\ verdict[c] = "CTX_ACT_DROP"
                  /\ gh[c].notify.sent
                  /\ gh[c].notify.reason = "DROP_VLAN_FILTERED"

\* C12 amended: the same, except that to-netdev has cleared every metadata
\* slot (bpf_clear_meta) before it filters; no value is stored in any slot.
C12_VlanFilterCleared ==
  \A c \in Cpus :
    LET p == pkt[c]
    IN (/\ p.entry \in {"from_netdev", "to_netdev"}
        /\ p.vlan_present /\ p.vlan_tci % 4096 # 0)
       => /\ pc[c] = "done"
          /\ ~gh[c].resolved.set
          /\ gh[c].effect.kind = "none" /\ ~gh[c].dmac
          /\ \A ev \in meta_log[c] : ev.op # "store"
          /\ IF (p.ifindex = 116 /\ p.vlan_tci % 4096 \in {4000, 4001})
                \/ (p.ifindex = 117 /\ p.vlan_tci % 4096 \in {4003, 4004, 4005})
             THEN /\ verdict[c] = "CTX_ACT_OK"
                  /\ ~gh[c].notify.sent
                  /\ \A s \in Slots :
                       IF p.entry = "to_netdev"
                       THEN cb[c][s].v = 0 /\ ~cb[c][s].u
                       ELSE ~cb[c][s].w /\ cb[c][s].v = 0
             ELSE /\ verdict[c] = "CTX_ACT_DROP"
                  /\ gh[c].notify.sent
                  /\ gh[c].notify.reason = "DROP_VLAN_FILTERED"

\* VLAN 4003 is allowed on ifindex 117 and was passed by to-netdev, which
\* cleared the value left in CB_PROXY_MAGIC
C12_Witness ==
  \E c \in Cpus :
    /\ pkt[c].entry = "to_netdev"
    /\ pkt[c].vlan_present /\ pkt[c].vlan_tci = 4003 /\ pkt[c].ifindex = 117
    /\ pkt[c].up_magic = 66048
    /\ verdict[c] = "CTX_ACT_OK"
    /\ cb[c]["CB_PROXY_MAGIC"].v = 0


\* a local-endpoint record flagged host-delivery exists for the destination
HostDeliveryDst(p) ==
  /\ p.entry \in {"from_host", "from_netdev"}
  /\ p.proto \in {"ip4", "ip6"}
  /\ IF p.proto = "ip6" THEN lookup_ip6_endpoint(p.daddr).host_delivery
     ELSE lookup_ip4_endpoint(p.daddr).host_delivery

\* C13 as stated: a packet whose destination is a host-delivery local
\* endpoint always ends with the verdict CTX_ACT_OK.
C13_AlwaysStack ==
  \A c \in Cpus :
    (HostDeliveryDst(pkt[c]) /\ pc[c] = "done") => verdict[c] = "CTX_ACT_OK"

\* C13 amended: such a packet is never delivered locally, encapsulated or
\* redirected by the router; when it reaches the routing step, that step
\* returns CTX_ACT_OK, and the final verdict is CTX_ACT_OK unless, from-host,
\* rewrite_dmac_to_host failed (drop with DROP_WRITE_ERROR).
C13_RouterPassesToStack ==
  \A c \in Cpus :
    HostDeliveryDst(pkt[c]) =>
      /\ gh[c].effect.kind = "none"
      /\ gh[c].route.kind \in {"none", "stack", "host_delivery"}
      /\ gh[c].route.kind = "stack" => pkt[c].entry = "from_netdev" /\ ~cfg.host_routing
      /\ (gh[c].route.kind # "none" /\ pc[c] = "done") =>
           /\ gh[c].route.ret = "CTX_ACT_OK"
           /\ \/ verdict[c] = "CTX_ACT_OK" /\ ~gh[c].notify.sent
              \/ /\ pkt[c].entry = "from_host"
                 /\ ~gh[c].dmac
                 /\ verdict[c] = "CTX_ACT_DROP"
                 /\ gh[c].notify.reason = "DROP_WRITE_ERROR"

\* an IPv6 packet from the network to the node's own address, host routing
\* enabled, passed to the stack by the endpoint lookup
C13_Witness ==
  \E c \in Cpus :
    /\ pkt[c].entry = "from_netdev" /\ pkt[c].proto = "ip6" /\ pkt[c].daddr = 1
    /\ cfg.host_routing
    /\ gh[c].route.kind = "host_delivery"
    /\ pc[c] = "done" /\ verdict[c] = "CTX_ACT_OK"


\* the destination's records in the two tables, by family
DstEndpoint(p) ==
  IF p.proto = "ip6" THEN lookup_ip6_endpoint(p.daddr) ELSE lookup_ip4_endpoint(p.daddr)

DstInfo(p) ==
  IF p.proto = "ip6" THEN lookup_ip6_remote_endpoint(p.daddr)
  ELSE lookup_ip4_remote_endpoint(p.daddr)

\* the routing step of a continuation handler has decided this packet
Routed(c) ==
  /\ pkt[c].entry \in {"from_host", "from_netdev"}
  /\ pkt[c].proto \in {"ip4", "ip6"}
  /\ gh[c].route.kind # "none"

DstIsWorld(p) ==
  /\ DstInfo(p).present
  /\ IF p.proto = "ip6" THEN identity_is_world_ipv6(DstInfo(p).sec_identity)
     ELSE identity_is_world_ipv4(DstInfo(p).sec_identity)

\* the remote decision encapsulates the packet
DstTunnelled(p) ==
  /\ cfg.tunnel
  /\ IF p.proto = "ip6" THEN ipv6_encap_wanted(DstInfo(p)) ELSE ipv4_encap_wanted(DstInfo(p))

\* C15: a from-host packet of the ingress or egress proxy towards a world
\* destination (not tunnelled) gets CTX_ACT_OK from the remote decision and is
\* never dropped as unroutable; the same packet without the proxy origin is
\* dropped with DROP_UNROUTABLE.
C15_ProxyException ==
  \A c \in Cpus :
    (Routed(c) /\ pkt[c].entry = "from_host" /\ ~DstEndpoint(pkt[c]).present
       /\ DstIsWorld(pkt[c]) /\ ~DstTunnelled(pkt[c]))
      => IF pkt[c].from_proxy \in {"ingress", "egress"}
           THEN /\ gh[c].route.kind = "direct"
                /\ gh[c].route.ret = "CTX_ACT_OK"
                /\ gh[c].notify.reason # "DROP_UNROUTABLE"
                /\ (pc[c] = "done" /\ gh[c].dmac) => verdict[c] = "CTX_ACT_OK"
           ELSE /\ gh[c].route.kind = "unroutable"
                /\ gh[c].route.ret = "DROP_UNROUTABLE"
                /\ pc[c] = "done" =>
                     (verdict[c] = "CTX_ACT_DROP" /\ gh[c].notify.reason = "DROP_UNROUTABLE")

\* an IPv6 packet of the egress proxy towards the world has passed the remote
\* decision
C15_Witness ==
  \E c \in Cpus :
    /\ pkt[c].entry = "from_host" /\ pkt[c].proto = "ip6" /\ pkt[c].daddr = 4
    /\ pkt[c].from_proxy = "egress"
    /\ gh[c].route.kind = "direct"
    /\ pc[c] = "done" /\ verdict[c] = "CTX_ACT_OK"


\* scenario A: a well-formed IPv4 frame from the network, source without
\* remote-endpoint record, destination a local endpoint that is not the host,
\* host firewall disabled, every chain continuation succeeded
ScenarioA(c) ==
  /\ pkt[c].entry = "from_netdev" /\ pkt[c].proto = "ip4"
  /\ pkt[c].l2ok /\ ~pkt[c].short /\ ~pkt[c].vlan_present
  /\ ~lookup_ip4_remote_endpoint(pkt[c].saddr).present
  /\ lookup_ip4_endpoint(pkt[c].daddr).present
  /\ ~lookup_ip4_endpoint(pkt[c].daddr).host_delivery
  /\ ~cfg.hostfw
  /\ gh[c].tc_failed = "none"
  /\ pc[c] = "done"

\* the local-delivery operation to the destination's endpoint was the outcome,
\* with WORLD_IPV4_ID as the source identity
DeliveredAsWorld(c) ==
  /\ gh[c].effect = [kind |-> "local_delivery", id |-> WORLD_IPV4_ID,
                     magic |-> "MARK_MAGIC_IDENTITY",
                     to |-> lookup_ip4_endpoint(pkt[c].daddr).ifindex]
  /\ \/ verdict[c] = "CTX_ACT_REDIRECT"
     \/ verdict[c] = "CTX_ACT_DROP" /\ gh[c].notify.reason = "DROP_EP_NOT_READY"

RemoteDecided(c) ==
  /\ Routed(c) /\ pkt[c].entry = "from_host"
  /\ ~DstEndpoint(pkt[c]).present
  /\ cfg.tunnel

\* C17: in tunnel mode, a from-host packet to a non-local destination whose
\* record has skip-tunnel set is never encapsulated, even with
\* has-tunnel-endpoint set, and goes on to the direct-routing decision;
\* otherwise a record with has-tunnel-endpoint makes the packet encapsulated
\* towards the recorded endpoint with the record's identity, and the verdict
\* is that of the encap-and-redirect operation.
C17_TunnelOrder ==
  \A c \in Cpus :
    (RemoteDecided(c) /\ DstInfo(pkt[c]).present) =>
      IF DstInfo(pkt[c]).flag_skip_tunnel
        THEN /\ gh[c].effect.kind = "none"
             /\ gh[c].route.kind \in {"direct", "unroutable"}
             /\ gh[c].route.kind = "unroutable" <=>
                  (DstIsWorld(pkt[c]) /\ pkt[c].from_proxy = "none")
      ELSE IF DstInfo(pkt[c]).flag_has_tunnel_ep
        THEN /\ gh[c].route.kind = "encap"
             /\ gh[c].route.dst_id = DstInfo(pkt[c]).sec_identity
             /\ gh[c].effect.kind = "encap"
             /\ gh[c].effect.to = pkt[c].daddr
             /\ pc[c] = "done" =>
                  \/ verdict[c] = "CTX_ACT_REDIRECT" /\ ~gh[c].notify.sent
                  \/ /\ verdict[c] = "CTX_ACT_DROP"
                     /\ gh[c].notify.reason = "DROP_WRITE_ERROR"
                     /\ ~gh[c].dmac
      ELSE gh[c].route.kind \in {"direct", "unroutable"}

\* a packet towards a record with both flags set has taken the direct path
C17_Witness ==
  \E c \in Cpus :
    /\ RemoteDecided(c) /\ pkt[c].proto = "ip4" /\ pkt[c].daddr = 6
    /\ DstInfo(pkt[c]).flag_skip_tunnel /\ DstInfo(pkt[c]).flag_has_tunnel_ep
    /\ gh[c].route = [kind |-> "direct", dst_id |-> 50, ret |-> "CTX_ACT_OK"]
    /\ pc[c] = "done" /\ verdict[c] = "CTX_ACT_OK"

\* a packet towards a record with has-tunnel-endpoint only was encapsulated
C17_EncapReached ==
  \E c \in Cpus :
    /\ RemoteDecided(c) /\ pkt[c].daddr = 3
    /\ gh[c].route.kind = "encap" /\ pc[c] = "done"
    /\ verdict[c] = "CTX_ACT_REDIRECT"


-----------------------------------------------------------------------------
(* The FIB redirect engine on its own: one call at a time, every outcome   *)
(* of the kernel helpers                                                   *)

\* outcomes of fib_lookup(), neigh_resolver_available(), the neighbour map,
\* the two L2 stores and ipv4_l3()/ipv6_l3(); ENABLE_SKIP_FIB and
\* direct_routing_dev_ifindex of the build
FibEnv ==
  {[lookup_ret |-> r, lookup_ifindex |-> 4, resolver |-> rs, neigh_entry |-> n,
    wr_d |-> w[1], wr_s |-> w[2], l3 |-> l, skip_fib |-> sk,
    direct_routing_dev_ifindex |-> 9,
    l3_devs |-> {}, eth_hlen |-> 14, head_ok |-> TRUE, proto_ok |-> TRUE] :
     r \in {-22, 0, 2, 4, 7, 8}, rs \in BOOLEAN, n \in BOOLEAN,
     w \in {<<TRUE, TRUE>>, <<FALSE, TRUE>>, <<TRUE, FALSE>>},
     l \in {"CTX_ACT_OK", "DROP_INVALID"}, sk \in BOOLEAN}

FibStep(fn, needs_l2_check, allow_neigh_map, fib_result, e, out) ==
  /\ fib' = [fn |-> fn, needs_l2_check |-> needs_l2_check,
             allow_neigh_map |-> allow_neigh_map, fib_result |-> fib_result,
             oif_in |-> 1, e |-> e, out |-> out]
  /\ UNCHANGED <<cfg, pc, pkt, cb, meta_log, tail_call_buffer4, tail_call_buffer6,
                 verdict, gh, nextId>>

\* fib_do_redirect() after a lookup by the caller (with_params), or without
\* one; a NULL fib_params is passed only where it is not dereferenced; l3 and
\* the build flag play no part
call_fib_do_redirect ==
  /\ fib.fn = "none"
  /\ \E needs_l2_check \in BOOLEAN, allow_neigh_map \in BOOLEAN,
        with_params \in BOOLEAN,
        e \in {d \in FibEnv : d.l3 = "CTX_ACT_OK" /\ ~d.skip_fib} :
       /\ with_params
          \/ /\ e.lookup_ret # BPF_FIB_LKUP_RET_SUCCESS
             /\ e.lookup_ret = BPF_FIB_LKUP_RET_NO_NEIGH => (e.resolver \/ ~allow_neigh_map)
       /\ FibStep("fib_do_redirect", needs_l2_check, allow_neigh_map, e.lookup_ret, e,
                  fib_do_redirect(FibCtx0, needs_l2_check,
                                  IF with_params
                                    THEN fib_lookup_v4(ZeroParams, 2, 2, 5, e).params
                                  ELSE NullParams,
                                  allow_neigh_map, e.lookup_ret, e.lookup_ifindex, 0, e))

call_fib_redirect ==
  /\ fib.fn = "none"
  /\ \E needs_l2_check \in BOOLEAN, use_neigh_map \in BOOLEAN, e \in FibEnv :
       FibStep("fib_redirect", needs_l2_check, use_neigh_map, e.lookup_ret, e,
               fib_redirect(FibCtx0, needs_l2_check,
                            [ZeroParams EXCEPT !.family = "AF_INET", !.ifindex = 2,
                                               !.dst = 5],
                            use_neigh_map, 0, 1, e))

call_fib_redirect_v4 ==
  /\ fib.fn = "none"
  /\ \E needs_l2_check \in BOOLEAN, allow_neigh_map \in BOOLEAN, e \in FibEnv :
       FibStep("fib_redirect_v4", needs_l2_check, allow_neigh_map, e.lookup_ret, e,
               fib_redirect_v4(FibCtx0, [ifindex |-> 2, saddr |-> 2, daddr |-> 5],
                               needs_l2_check, allow_neigh_map, 0, 1, e))

call_fib_redirect_v6 ==
  /\ fib.fn = "none"
  /\ \E needs_l2_check \in BOOLEAN, allow_neigh_map \in BOOLEAN, e \in FibEnv :
       FibStep("fib_redirect_v6", needs_l2_check, allow_neigh_map, e.lookup_ret, e,
               fib_redirect_v6(FibCtx0, [ifindex |-> 2, saddr |-> 2, daddr |-> 5],
                               needs_l2_check, allow_neigh_map, 0, 1, e))

\* the caller has taken the result
fib_return ==
  /\ fib.fn # "none"
  /\ fib' = NoFib
  /\ UNCHANGED <<cfg, pc, pkt, cb, meta_log, tail_call_buffer4, tail_call_buffer6,
                 verdict, gh, nextId>>

NextFib ==
  \/ call_fib_do_redirect
  \/ call_fib_redirect
  \/ call_fib_redirect_v4
  \/ call_fib_redirect_v6
  \/ fib_return

InitFib == Init /\ cfg = SmpCfg

SpecFib == InitFib /\ [][NextFib]_vars

\* fib_do_redirect() ran, with the status NO_NEIGH, no resolver, and no
\* usable entry of the neighbour map
NoNeighNoEntry ==
  /\ fib.out.ctx.dr.called
  /\ fib.out.ctx.dr.fib_result = BPF_FIB_LKUP_RET_NO_NEIGH
  /\ ~fib.e.resolver
  /\ ~fib.e.neigh_entry \/ ~fib.allow_neigh_map

\* the frame's L2 addresses are as they arrived
L2Untouched ==
  fib.out.ctx.dmac = FibCtx0.dmac /\ fib.out.ctx.smac = FibCtx0.smac

LookedUp ==
  /\ fib.fn \in {"fib_redirect", "fib_redirect_v4", "fib_redirect_v6"}
  /\ ~fib.e.skip_fib \/ ~fib.e.resolver

\* C20: in fib_redirect, fib_redirect_v4 and fib_redirect_v6 a lookup status
\* other than SUCCESS and NO_NEIGH gives DROP_NO_FIB with ext_err equal to the
\* status; nothing is redirected, *oif is not set, the frame is not modified.
C20_LookupFailure ==
  (LookedUp /\ fib.e.lookup_ret \notin {BPF_FIB_LKUP_RET_SUCCESS, BPF_FIB_LKUP_RET_NO_NEIGH})
    => /\ fib.out.ret = "DROP_NO_FIB"
       /\ fib.out.ext_err = fib.e.lookup_ret
       /\ fib.out.oif = fib.oif_in
       /\ fib.out.ctx = [FibCtx0 EXCEPT !.lookups = 1]

\* a lookup that ended with a positive status other than NO_NEIGH
C20_Witness ==
  /\ LookedUp /\ fib.fn = "fib_redirect_v6"
  /\ fib.e.lookup_ret = 4
  /\ fib.out.ret = "DROP_NO_FIB" /\ fib.out.ext_err = 4


\* the frame's ethertype is unsupported (no usable L2 header) or unknown (no
\* protocol the program handles)
UnknownEthertype(p) == p.entry # "none" /\ (~p.l2ok \/ p.proto = "unknown")

FragRank(f) ==
  CASE f = "idle" -> 0
    [] f \in {"tail_handle_ipv4_from_netdev", "tail_handle_ipv4_from_host"} -> 1
    [] f \in {"tail_handle_ipv6_from_netdev", "tail_handle_ipv6_from_host"} -> 2
    [] f = "done" -> 4
    [] OTHER -> 3

\* the fragments a fragment may continue into
FragEdge(f, g, entry) ==
  CASE f = "idle" ->
         \/ g = "done"
         \/ entry = "from_netdev" /\ g \in {"tail_handle_ipv4_from_netdev", "tail_handle_ipv6_from_netdev"}
         \/ entry = "from_host" /\ g \in {"tail_handle_ipv4_from_host", "tail_handle_ipv6_from_host"}
         \/ entry = "to_host" /\ g \in {"tail_ipv4_host_policy_ingress", "tail_ipv6_host_policy_ingress"}
         \/ entry = "host_policy" /\ g \in {"tail_ipv4_host_policy_ingress", "tail_ipv6_host_policy_ingress", "endpoint_policy"}
    [] f = "tail_handle_ipv4_from_netdev" ->
         g \in {"tail_handle_ipv4_cont_from_netdev", "tail_handle_ipv6_from_netdev", "done"}
    [] f = "tail_handle_ipv4_from_host" -> g \in {"tail_handle_ipv4_cont_from_host", "done"}
    [] f = "tail_handle_ipv6_from_netdev" -> g \in {"tail_handle_ipv6_cont_from_netdev", "done"}
    [] f = "tail_handle_ipv6_from_host" -> g \in {"tail_handle_ipv6_cont_from_host", "done"}
    [] f = "done" -> g = "idle"
    [] OTHER -> g = "done"

\* C23: every step of a packet's processing moves along an edge of the
\* fragment graph and strictly forward in it, so that no fragment is entered
\* twice, no failure re-attempts a stage, and the verdict is reached after at
\* most four hops.
C23_NoRetry ==
  [][\A c \in Cpus :
       \/ pc'[c] = pc[c] /\ gh'[c] = gh[c] /\ pkt'[c] = pkt[c] /\ cb'[c] = cb[c]
       \/ /\ FragEdge(pc[c], pc'[c], pkt'[c].entry)
          /\ pc[c] # "done" => FragRank(pc'[c]) > FragRank(pc[c])
          /\ pc'[c] \notin {"idle", "done"} =>
               /\ ~gh'[c].notify.sent
               /\ gh'[c].tc_failed = "none"
               /\ gh'[c].rejected = "none"]_vars

\* an IPv4 packet from the network that was recirculated into the IPv6
\* handler has reached the IPv6 continuation, its third hop
C23_Witness ==
  \E c \in Cpus :
    /\ pc[c] = "tail_handle_ipv6_cont_from_netdev"
    /\ pkt[c].entry = "from_netdev" /\ pkt[c].proto = "ip4"


\* an IP packet long enough for its header, handed to cil_host_policy
HostPolicyIp(p) ==
  p.entry = "host_policy" /\ p.l2ok /\ p.proto \in {"ip4", "ip6"} /\ ~p.short

\* C24: cil_host_policy demultiplexes on the stored from-host flag. Flag set:
\* the egress host policy runs for source HOST_ID, the endpoint program named
\* by the destination-endpoint-id slot is entered only if the policy did not
\* fail, and a policy error is a notified drop without the endpoint program.
\* Flag clear: only the ingress host policy runs, the endpoint program is
\* never entered and an allowed packet is passed to the host stack. Without
\* the host firewall the program passes every packet.
C24_HostPolicyDemux ==
  \A c \in Cpus :
    pkt[c].entry = "host_policy" =>
      IF ~cfg.hostfw THEN
        /\ pc[c] = "done" /\ verdict[c] = "CTX_ACT_OK"
        /\ gh[c].hp = "none" /\ gh[c].effect.kind = "none" /\ ~gh[c].notify.sent
      ELSE IF pkt[c].lxc_from_host # 0 THEN
        /\ gh[c].hp # "ingress"
        /\ pc[c] \in {"endpoint_policy", "done"}
        /\ HostPolicyIp(pkt[c]) => gh[c].hp = "egress" /\ gh[c].hp_src = HOST_ID
        /\ gh[c].effect.kind = "endpoint_policy" =>
             /\ gh[c].effect.to = pkt[c].lxc_id
             /\ ~IS_ERR(gh[c].hp_ret)
        /\ pc[c] = "endpoint_policy" => gh[c].effect.kind = "endpoint_policy"
        /\ pc[c] = "done" /\ IS_ERR(gh[c].hp_ret) =>
             /\ verdict[c] = "CTX_ACT_DROP"
             /\ gh[c].notify.sent /\ gh[c].notify.reason = gh[c].hp_ret
             /\ gh[c].notify.src = HOST_ID
             /\ gh[c].effect.kind = "none"
      ELSE
        /\ gh[c].hp # "egress"
        /\ gh[c].effect.kind = "none"
        /\ pc[c] \in {"tail_ipv4_host_policy_ingress", "tail_ipv6_host_policy_ingress", "done"}
        /\ pc[c] = "done" /\ gh[c].hp = "ingress" =>
             verdict[c] = (IF IS_ERR(gh[c].hp_ret) THEN "CTX_ACT_DROP" ELSE gh[c].hp_ret)
        /\ pc[c] = "done" /\ HostPolicyIp(pkt[c]) /\ gh[c].tc_failed = "none" =>
             gh[c].hp = "ingress"

\* the egress host policy denied a packet from the host to an endpoint: it is
\* dropped and the endpoint's policy program was not entered
C24_Witness ==
  \E c \in Cpus :
    /\ pkt[c].entry = "host_policy" /\ pkt[c].lxc_from_host # 0
    /\ cfg.hostfw /\ pc[c] = "done"
    /\ gh[c].hp = "egress" /\ gh[c].hp_ret = "DROP_POLICY_DENIED"
    /\ verdict[c] = "CTX_ACT_DROP" /\ gh[c].effect.kind = "none"


\* C25: when the in-band identity is reserved and the table holds HOST_ID for
\* the source address, the identity selected from-host or with
\* secctx_from_ipcache is the in-band one; and the resolved identity is
\* HOST_ID only if the in-band identity was HOST_ID.
C25_HostNotAdopted ==
  \A c \in Cpus :
    LET p == pkt[c]
        info == TableInfo(p)
    IN gh[c].resolved.set =>
         /\ (/\ identity_is_reserved(InBand(p))
             /\ info.present /\ info.sec_identity = HOST_ID
             /\ p.entry = "from_host" \/ cfg.secctx_from_ipcache)
              => gh[c].resolved.id = InBand(p)
         /\ gh[c].resolved.id = HOST_ID => InBand(p) = HOST_ID

\* an IPv6 packet with the node's address as source and a reserved in-band
\* identity other than HOST_ID kept its in-band identity
C25_Witness ==
  \E c \in Cpus :
    /\ gh[c].resolved.set
    /\ pkt[c].proto = "ip6"
    /\ TableInfo(pkt[c]).present /\ TableInfo(pkt[c]).sec_identity = HOST_ID
    /\ identity_is_reserved(InBand(pkt[c])) /\ InBand(pkt[c]) # HOST_ID
    /\ pkt[c].entry = "from_host" \/ cfg.secctx_from_ipcache
    /\ gh[c].resolved.id = InBand(pkt[c])


\* C26: the remote-endpoint table is consulted exactly when the in-band
\* identity is reserved; with a non-reserved in-band identity the ipcache
\* source-label output keeps the value it was given (zero) and, from-host,
\* the resolved identity is the in-band identity whatever the table holds.
C26_LookupIffReserved ==
  \A c \in Cpus :
    LET p == pkt[c]
    IN gh[c].resolved.set =>
         /\ gh[c].resolved.lookup <=> identity_is_reserved(InBand(p))
         /\ ~identity_is_reserved(InBand(p)) =>
              /\ gh[c].resolved.sec = 0
              /\ p.entry = "from_host" => gh[c].resolved.id = InBand(p)

\* an IPv4 packet of the proxy whose source address the table maps to
\* another identity kept the identity of its mark
C26_Witness ==
  \E c \in Cpus :
    /\ gh[c].resolved.set /\ ~gh[c].resolved.lookup
    /\ pkt[c].entry = "from_host" /\ pkt[c].proto = "ip4"
    /\ InBand(pkt[c]) = 1000
    /\ TableInfo(pkt[c]).present /\ TableInfo(pkt[c]).sec_identity = 2000
    /\ gh[c].resolved.id = 1000 /\ gh[c].resolved.sec = 0


IPv6Conts == {"tail_handle_ipv6_cont_from_netdev", "tail_handle_ipv6_cont_from_host"}

\* C27: once icmp6_host_handle() said SKIP_HOST_FIREWALL, handle_ipv6 makes no
\* host-policy lookup and no write of the transfer buffer, the from-host flags
\* it stores are zero, and the continuation applies no host policy; in
\* to-netdev the firewall stage passes the packet without evaluating the
\* egress policy.
C27_IcmpSkip ==
  \A c \in Cpus :
    gh[c].icmp_skip =>
      IF pkt[c].entry = "to_netdev" THEN
        /\ gh[c].hp = "none"
        /\ pc[c] = "done" =>
             \/ verdict[c] = "CTX_ACT_OK"
             \/ gh[c].rate_limited
             \/ cfg.nodeport /\ ~pkt[c].snat_done
      ELSE
        /\ pkt[c].entry \in {"from_netdev", "from_host"}
        /\ ~gh[c].pre.set /\ ~gh[c].store_failed /\ gh[c].rejected = "none"
        /\ ~tail_call_buffer6[BufCpu6(c)].fresh
        /\ ~gh[c].applied.set
        /\ pc[c] \in IPv6Conts =>
             /\ cb[c]["CB_FROM_HOST"].u
             /\ ~NeedHostfw(cb[c]["CB_FROM_HOST"].v)

\* an ICMPv6 packet from the network that skipped the host firewall went
\* through the continuation without a host-policy decision
C27_Witness ==
  \E c \in Cpus :
    /\ gh[c].icmp_skip /\ cfg.hostfw
    /\ pkt[c].entry = "from_netdev" /\ pkt[c].proto = "ip6"
    /\ pc[c] = "done" /\ gh[c].cont_ran
    /\ ~gh[c].applied.set /\ ~gh[c].pre.set


\* the host policy applied by the continuation ended the processing
PolicyStopped(g) == g.applied.set /\ (IS_ERR(g.hp_ret) \/ g.hp_ret = "CTX_ACT_REDIRECT")

\* C28: in a continuation that found NEED_HOSTFW set, no endpoint lookup,
\* local delivery, tunnel decision or destination-MAC rewrite happens unless
\* the host policy was applied first and returned neither an error nor
\* REDIRECT; an error or REDIRECT of the policy is the continuation's result.
C28_HostFwFirst ==
  \A c \in Cpus :
    (gh[c].cont_ran /\ gh[c].pre.set /\ cfg.hostfw) =>
      /\ (gh[c].route.kind # "none" \/ gh[c].effect.kind # "none" \/ gh[c].dmac) =>
           gh[c].applied.set /\ ~PolicyStopped(gh[c])
      /\ (PolicyStopped(gh[c]) /\ pc[c] = "done") =>
           /\ verdict[c] = (IF IS_ERR(gh[c].hp_ret) THEN "CTX_ACT_DROP" ELSE "CTX_ACT_REDIRECT")
           /\ IS_ERR(gh[c].hp_ret) => gh[c].notify.reason = gh[c].hp_ret
      /\ (pc[c] = "done" /\ ~pkt[c].short /\ gh[c].rejected = "none") => gh[c].applied.set

\* the continuation of an IPv6 packet from the host returned the REDIRECT of
\* the host policy without routing the packet or rewriting its MAC
C28_Witness ==
  \E c \in Cpus :
    /\ gh[c].cont_ran /\ gh[c].pre.set /\ cfg.hostfw
    /\ pkt[c].entry = "from_host" /\ pkt[c].proto = "ip6"
    /\ pc[c] = "done" /\ gh[c].applied.set /\ gh[c].hp_ret = "CTX_ACT_REDIRECT"
    /\ verdict[c] = "CTX_ACT_REDIRECT"
    /\ gh[c].route.kind = "none" /\ gh[c].effect.kind = "none" /\ ~gh[c].dmac


\* C29: the identity the entry fragment resolved and stored in CB_SRC_LABEL
\* is the one every later fragment of the chain finds in the slot, the one
\* the continuation uses for the host policy, the local delivery and the
\* encapsulation, and the one every drop notification of the chain names,
\* also for an IPv4 packet recirculated into the IPv6 handler.
C29_IdentitySurvives ==
  \A c \in Cpus :
    (gh[c].resolved.set /\ pkt[c].entry \in {"from_netdev", "from_host"}) =>
      /\ pc[c] \notin {"idle", "done"} =>
           cb[c]["CB_SRC_LABEL"].u /\ cb[c]["CB_SRC_LABEL"].v = gh[c].resolved.id
      /\ gh[c].cont_ran => gh[c].cont_id = gh[c].resolved.id
      /\ gh[c].effect.kind \in {"local_delivery", "encap"} =>
           gh[c].effect.id = gh[c].resolved.id
      /\ (gh[c].applied.set /\ pkt[c].entry = "from_host") =>
           (gh[c].applied.is_host_id <=> gh[c].resolved.id = HOST_ID)
      /\ gh[c].notify.sent => gh[c].notify.src = gh[c].resolved.id

\* an IPv4 packet from the network, recirculated into the IPv6 handler (which
\* filled the IPv6 transfer buffer), went through the continuation with the
\* identity the entry fragment resolved
C29_Witness ==
  \E c \in Cpus :
    /\ gh[c].resolved.set /\ gh[c].resolved.id # 0
    /\ pkt[c].entry = "from_netdev" /\ pkt[c].proto = "ip4"
    /\ tail_call_buffer6[BufCpu6(c)].fresh
    /\ pc[c] = "done" /\ gh[c].cont_ran
    /\ gh[c].cont_id = gh[c].resolved.id


\* fragmentation support is compiled out for the family of the packet
FragUnsupported(p) ==
  (p.proto = "ip4" /\ ~cfg.frag4) \/ (p.proto = "ip6" /\ ~cfg.frag6)

\* C30: without fragmentation support for its family, a fragment that
\* reaches handle_ipv4/handle_ipv6 is dropped with DROP_FRAG_NOSUPPORT before
\* any load-balancer lookup, host-firewall pre-check, write of the transfer
\* buffer or metadata store, and never reaches a continuation; with the
\* support compiled in, no packet is dropped with DROP_FRAG_NOSUPPORT.
C30_FragGate ==
  \A c \in Cpus :
    LET p == pkt[c]
        g == gh[c]
    IN p.entry \in {"from_netdev", "from_host"} =>
         /\ (p.frag = "yes" /\ FragUnsupported(p)) =>
              /\ pc[c] \notin {"tail_handle_ipv4_cont_from_netdev", "tail_handle_ipv4_cont_from_host"}
              /\ pc[c] \notin IPv6Conts
              /\ ~g.cont_ran /\ ~g.lb_ran /\ ~g.pre.set /\ ~g.store_failed
              /\ ~tail_call_buffer4[BufCpu4(c)].fresh
              /\ ~tail_call_buffer6[BufCpu6(c)].fresh
              /\ (pc[c] = "done" /\ g.tc_failed = "none" /\ ~g.decrypt) =>
                   /\ verdict[c] = "CTX_ACT_DROP"
                   /\ g.notify.sent /\ g.notify.reason = "DROP_FRAG_NOSUPPORT"
                   /\ \A ev \in meta_log[c] : ev.op # "store"
         /\ (g.notify.sent /\ g.notify.reason = "DROP_FRAG_NOSUPPORT") =>
              p.frag = "yes" /\ FragUnsupported(p)

\* an IPv4 fragment from the network was dropped by the gate of a build with
\* the load balancer and the host firewall, before either looked at it
C30_Witness ==
  \E c \in Cpus :
    /\ pkt[c].entry = "from_netdev" /\ pkt[c].proto = "ip4" /\ pkt[c].frag = "yes"
    /\ cfg.nodeport /\ cfg.hostfw /\ ~cfg.frag4
    /\ pc[c] = "done" /\ verdict[c] = "CTX_ACT_DROP"
    /\ gh[c].notify.reason = "DROP_FRAG_NOSUPPORT"
    /\ ~gh[c].lb_ran /\ ~gh[c].pre.set

\* a fragment went through the continuation of a build with fragment support
C30_WitnessSupported ==
  \E c \in Cpus :
    /\ pkt[c].frag = "yes" /\ ~FragUnsupported(pkt[c])
    /\ pc[c] = "done" /\ gh[c].cont_ran


\* C31: once a continuation has run, the destination MAC was rewritten to
\* CILIUM_NET_MAC exactly when the packet is from-host, handle_ipv4_cont or
\* handle_ipv6_cont returned CTX_ACT_OK and the store succeeded; a failed
\* store is a drop with DROP_WRITE_ERROR; from-netdev packets and packets
\* whose handler returned a redirect or an error keep their MAC and the
\* handler's verdict.
C31_DmacRewrite ==
  \A c \in Cpus :
    (gh[c].cont_ran /\ pc[c] = "done") =>
      /\ gh[c].dmac => pkt[c].entry = "from_host" /\ gh[c].cont_ret = "CTX_ACT_OK"
      /\ gh[c].dmac => verdict[c] = "CTX_ACT_OK"
      /\ (pkt[c].entry = "from_host" /\ gh[c].cont_ret = "CTX_ACT_OK" /\ ~gh[c].dmac) =>
           /\ verdict[c] = "CTX_ACT_DROP"
           /\ gh[c].notify.sent /\ gh[c].notify.reason = "DROP_WRITE_ERROR"
      /\ (pkt[c].entry # "from_host" \/ gh[c].cont_ret # "CTX_ACT_OK") =>
           /\ ~gh[c].dmac
           /\ verdict[c] = (IF IS_ERR(gh[c].cont_ret) THEN "CTX_ACT_DROP" ELSE gh[c].cont_ret)

\* the continuation of a from-host packet returned CTX_ACT_OK, the store of
\* the MAC failed and the packet was dropped with DROP_WRITE_ERROR
C31_Witness ==
  \E c \in Cpus :
    /\ gh[c].cont_ran /\ pc[c] = "done"
    /\ pkt[c].entry = "from_host" /\ gh[c].cont_ret = "CTX_ACT_OK"
    /\ ~gh[c].dmac /\ verdict[c] = "CTX_ACT_DROP"
    /\ gh[c].notify.reason = "DROP_WRITE_ERROR"


StageRank(name) ==
  CASE name = "vlan" -> 1 [] name = "hostfw" -> 2 [] name = "egw" -> 3
    [] name = "edt" -> 4 [] name = "ipsec" -> 5 [] name = "wg" -> 6
    [] name = "nat" -> 7

\* the stages of cil_to_netdev that produced a verdict for the packet on c
StagesOf(c) == {gh[c].stages[i].s : i \in DOMAIN gh[c].stages}

\* the stages ran in the fixed order, each after every earlier one said
\* CTX_ACT_OK
StagesInOrder(st) ==
  /\ \A i, j \in DOMAIN st : i < j => StageRank(st[i].s) < StageRank(st[j].s)
  /\ \A i \in DOMAIN st : i < Len(st) => st[i].ret = "CTX_ACT_OK"
  /\ \A i \in DOMAIN st :
       (st[i].s = "hostfw" /\ st[i].ret # "CTX_ACT_OK") => i = Len(st)

\* C33 as stated: in cil_to_netdev the stages run in the order VLAN filter,
\* host firewall, egress gateway, bandwidth manager, IPsec, WireGuard, forward
\* NAT, a stage only after every earlier one returned CTX_ACT_OK, and with the
\* host firewall compiled in the egress gateway handles no packet that the
\* host firewall has not evaluated.
C33_StageOrderAsStated ==
  \A c \in Cpus :
    (pkt[c].entry = "to_netdev" /\ pc[c] = "done") =>
      /\ StagesInOrder(gh[c].stages)
      /\ (cfg.hostfw /\ "egw" \in StagesOf(c)) => "hostfw" \in StagesOf(c)

\* C33: the stages of cil_to_netdev run in the fixed order, a stage only after
\* every earlier one returned CTX_ACT_OK, so nothing follows a drop or a
\* redirect of the host firewall; the egress gateway handles a packet the host
\* firewall has not evaluated only when the packet is marked SNAT-done, which
\* skips the host firewall.
C33_StageOrder ==
  \A c \in Cpus :
    (pkt[c].entry = "to_netdev" /\ pc[c] = "done") =>
      /\ StagesInOrder(gh[c].stages)
      /\ (cfg.hostfw /\ "egw" \in StagesOf(c)) =>
           \/ "hostfw" \in StagesOf(c)
           \/ pkt[c].snat_done

\* a pod's packet went through host firewall, egress gateway, bandwidth
\* manager, WireGuard and forward NAT
C33_Witness ==
  \E c \in Cpus :
    /\ pkt[c].entry = "to_netdev" /\ pc[c] = "done"
    /\ [i \in DOMAIN gh[c].stages |-> gh[c].stages[i].s]
         = <<"hostfw", "egw", "edt", "wg", "nat">>

\* in the IPsec build: egress gateway, bandwidth manager, IPsec, WireGuard
\* and forward NAT
C33_WitnessIpsec ==
  \E c \in Cpus :
    /\ pkt[c].entry = "to_netdev" /\ pc[c] = "done"
    /\ [i \in DOMAIN gh[c].stages |-> gh[c].stages[i].s]
         = <<"egw", "edt", "ipsec", "wg", "nat">>

\* the host firewall dropped the packet and no later stage ran
C33_WitnessStopped ==
  \E c \in Cpus :
    /\ pkt[c].entry = "to_netdev" /\ pc[c] = "done" /\ cfg.egw /\ cfg.bwm
    /\ pkt[c].mark_magic = "MARK_MAGIC_IDENTITY"
    /\ Len(gh[c].stages) = 1 /\ gh[c].stages[1].s = "hostfw"
    /\ gh[c].stages[1].ret = "DROP_POLICY_DENIED"


\* every stage of rank below r that produced a verdict said CTX_ACT_OK
ReachedStage(st, r) ==
  \A i \in DOMAIN st : StageRank(st[i].s) < r => st[i].ret = "CTX_ACT_OK"

\* C38: in cil_to_netdev a packet whose mark is the WireGuard-encrypted one is
\* never handed to host_wg_encrypt_hook, and one whose mark is
\* MARK_MAGIC_ENCRYPT never to ipsec_maybe_redirect_to_encrypt; when such a
\* packet reaches the stage of its own encryption, the stage only adds
\* TRACE_REASON_ENCRYPTED, and no other packet gets that trace reason.
C38_NoEncryptionLoop ==
  \A c \in Cpus :
    (pkt[c].entry = "to_netdev" /\ pc[c] = "done") =>
      LET st == gh[c].stages
          m == pkt[c].mark_magic
          tagged == ~pkt[c].vlan_present \/ pkt[c].vlan_tci % 4096 = 0
      IN /\ m = "MARK_MAGIC_WG_ENCRYPTED" => "wg" \notin StagesOf(c)
         /\ m = "MARK_MAGIC_ENCRYPT" => "ipsec" \notin StagesOf(c)
         /\ gh[c].trace_encrypted <=>
              /\ tagged
              /\ \/ m = "MARK_MAGIC_ENCRYPT" /\ cfg.ipsec /\ ReachedStage(st, 5)
                 \/ m = "MARK_MAGIC_WG_ENCRYPTED" /\ cfg.wg /\ ReachedStage(st, 6)
         /\ (verdict[c] = "CTX_ACT_REDIRECT" /\ st # <<>>) =>
              \/ st[Len(st)].s \notin {"ipsec", "wg"}
              \/ st[Len(st)].s = "ipsec" /\ m # "MARK_MAGIC_ENCRYPT"
              \/ st[Len(st)].s = "wg" /\ m # "MARK_MAGIC_WG_ENCRYPTED"

\* a WireGuard-encrypted packet left through the device of a WireGuard build
\* with the trace reason only
C38_Witness ==
  \E c \in Cpus :
    /\ pkt[c].entry = "to_netdev" /\ pc[c] = "done" /\ cfg.wg
    /\ pkt[c].mark_magic = "MARK_MAGIC_WG_ENCRYPTED"
    /\ gh[c].trace_encrypted /\ verdict[c] = "CTX_ACT_OK"

\* the same for an IPsec-encrypted packet of an IPsec build
C38_WitnessIpsec ==
  \E c \in Cpus :
    /\ pkt[c].entry = "to_netdev" /\ pc[c] = "done" /\ cfg.ipsec
    /\ pkt[c].mark_magic = "MARK_MAGIC_ENCRYPT"
    /\ gh[c].trace_encrypted /\ "ipsec" \notin StagesOf(c)


\* the magic cil_to_host demultiplexes on: the mark when it carries the
\* to-proxy magic (with IPsec: or the encryption magic), else CB_PROXY_MAGIC
ToHostMagic(p) ==
  IF HostMask(p.mark) = MARK_MAGIC_TO_PROXY THEN p.mark
  ELSE IF cfg.ipsec /\ HostMask(p.mark) = MARK_MAGIC_ENCRYPT THEN p.mark
  ELSE p.up_magic

C34_WitnessDispatch ==
  \E c \in Cpus :
    /\ pkt[c].entry = "to_host" /\ pkt[c].mark = 0 /\ pkt[c].up_magic = 0
    /\ gh[c].dispatch /\ gh[c].hp = "ingress" /\ pc[c] = "done"


\* fib_do_redirect() ran with the status NO_NEIGH
NoNeighCall ==
  fib.out.ctx.dr.called /\ fib.out.ctx.dr.fib_result = BPF_FIB_LKUP_RET_NO_NEIGH

C35_WitnessMap ==
  /\ NoNeighCall /\ ~fib.e.resolver /\ fib.allow_neigh_map
  /\ fib.out.ctx.neigh_map_read /\ fib.out.ctx.dmac = "neigh_dmac"


\* fib_redirect, fib_redirect_v4 or fib_redirect_v6 returned
RedirectFns == {"fib_redirect", "fib_redirect_v4", "fib_redirect_v6"}

C36_WitnessLookup ==
  /\ fib.fn = "fib_redirect" /\ fib.e.skip_fib /\ ~fib.e.resolver
  /\ fib.out.ctx.lookups = 1 /\ fib.out.ctx.redirect.kind = "plain"


\* C39: fib_redirect, fib_redirect_v4 and fib_redirect_v6, the callers of
\* fib_do_redirect(), pass a NULL fib_params only on the ENABLE_SKIP_FIB path,
\* that is with the status NO_NEIGH and a neighbour resolver; so neither the
\* SUCCESS branch nor the neighbour-map branch reads through a NULL fib_params.
C39_NoNullParams ==
  (fib.fn \in RedirectFns /\ fib.out.ctx.dr.called) =>
    /\ ~fib.out.ctx.dr.params =>
         /\ fib.e.skip_fib /\ fib.e.resolver
         /\ fib.out.ctx.dr.fib_result = BPF_FIB_LKUP_RET_NO_NEIGH
         /\ fib.out.ctx.lookups = 0
    /\ (fib.out.ctx.dr.fib_result = BPF_FIB_LKUP_RET_SUCCESS \/ fib.out.ctx.neigh_map_read)
         => fib.out.ctx.dr.params
    /\ ~fib.out.ctx.null_read

\* a call without fib_params, with the neighbour map allowed
C39_Witness ==
  /\ fib.fn = "fib_redirect" /\ fib.out.ctx.dr.called /\ ~fib.out.ctx.dr.params
  /\ fib.allow_neigh_map /\ fib.e.neigh_entry
  /\ fib.out.ctx.redirect.kind = "neigh"

\* the neighbour-map branch was entered, with fib_params of a lookup
C39_WitnessMap ==
  /\ fib.fn = "fib_redirect_v6" /\ fib.e.skip_fib /\ ~fib.e.resolver
  /\ fib.out.ctx.neigh_map_read /\ fib.out.ctx.dr.params
  /\ fib.out.ctx.dmac = "neigh_dmac"


\* C40: a from-host packet to a destination that is no local endpoint and has
\* no remote-endpoint record is dropped with DROP_UNROUTABLE by
\* handle_ipv4_cont / handle_ipv6_cont whether or not it comes from the proxy;
\* a proxy-sourced packet passes the test only with a record.
C40_MissingRecordDropped ==
  \A c \in Cpus :
    (Routed(c) /\ pkt[c].entry = "from_host" /\ ~DstEndpoint(pkt[c]).present)
      => /\ ~DstInfo(pkt[c]).present =>
              /\ gh[c].route.kind = "unroutable"
              /\ gh[c].route.ret = "DROP_UNROUTABLE"
              /\ gh[c].effect.kind = "none"
              /\ pc[c] = "done" =>
                   (verdict[c] = "CTX_ACT_DROP" /\ gh[c].notify.reason = "DROP_UNROUTABLE")
         /\ (pkt[c].from_proxy # "none" /\ gh[c].route.kind # "unroutable")
              => DstInfo(pkt[c]).present

\* an IPv4 packet of the egress proxy towards an address unknown to both
\* tables has been dropped
C40_Witness ==
  \E c \in Cpus :
    /\ pkt[c].entry = "from_host" /\ pkt[c].proto = "ip4" /\ pkt[c].daddr = 5
    /\ pkt[c].from_proxy = "egress"
    /\ gh[c].route.kind = "unroutable"
    /\ pc[c] = "done" /\ verdict[c] = "CTX_ACT_DROP"
    /\ gh[c].notify.reason = "DROP_UNROUTABLE"

\* the same for IPv6 and the ingress proxy
C40_WitnessV6 ==
  \E c \in Cpus :
    /\ pkt[c].entry = "from_host" /\ pkt[c].proto = "ip6" /\ pkt[c].daddr = 5
    /\ pkt[c].from_proxy # "none"
    /\ gh[c].route.kind = "unroutable"
    /\ pc[c] = "done" /\ verdict[c] = "CTX_ACT_DROP"


-----------------------------------------------------------------------------
(* L2 header synthesis: maybe_add_l2_hdr() and fib_do_redirect() over the   *)
(* builds that define IS_L3_DEV and ETH_HLEN, and over the outcomes of      *)
(* ctx_change_head() and eth_store_proto()                                  *)

\* device 4 is an L3 device in the builds that define IS_L3_DEV; ETH_HLEN is
\* 0 when the program is attached to an L3 device
L2Env ==
  {[lookup_ret |-> r, lookup_ifindex |-> i, resolver |-> rs, neigh_entry |-> TRUE,
    wr_d |-> TRUE, wr_s |-> TRUE, l3 |-> "CTX_ACT_OK", skip_fib |-> FALSE,
    direct_routing_dev_ifindex |-> 9,
    l3_devs |-> d, eth_hlen |-> h, head_ok |-> w[1], proto_ok |-> w[2]] :
     r \in {BPF_FIB_LKUP_RET_SUCCESS, BPF_FIB_LKUP_RET_NO_NEIGH}, i \in {4, 7},
     rs \in BOOLEAN, d \in {{}, {4}}, h \in {0, 14},
     w \in {<<TRUE, TRUE>>, <<FALSE, TRUE>>, <<TRUE, FALSE>>}}

L2Step(fn, needs_l2_check, allow_neigh_map, e, out) ==
  /\ fib' = [fn |-> fn, needs_l2_check |-> needs_l2_check,
             allow_neigh_map |-> allow_neigh_map, fib_result |-> e.lookup_ret,
             oif_in |-> e.lookup_ifindex, e |-> e, out |-> out]
  /\ UNCHANGED <<cfg, pc, pkt, cb, meta_log, tail_call_buffer4, tail_call_buffer6,
                 verdict, gh, nextId>>

\* maybe_add_l2_hdr() as the local-delivery call sites use it
call_maybe_add_l2_hdr ==
  /\ fib.fn = "none"
  /\ \E e \in {d \in L2Env : d.resolver /\ d.lookup_ret = BPF_FIB_LKUP_RET_SUCCESS} :
       L2Step("maybe_add_l2_hdr", TRUE, FALSE, e,
              [ctx |-> maybe_add_l2_hdr(FibCtx0, e.lookup_ifindex, TRUE, e).ctx,
               ret |-> maybe_add_l2_hdr(FibCtx0, e.lookup_ifindex, TRUE, e).ret,
               ext_err |-> 0, oif |-> e.lookup_ifindex,
               l2_hdr_required |->
                 maybe_add_l2_hdr(FibCtx0, e.lookup_ifindex, TRUE, e).l2_hdr_required])

\* fib_do_redirect() after a lookup, with and without the L2 check
call_fib_do_redirect_l2 ==
  /\ fib.fn = "none"
  /\ \E needs_l2_check \in BOOLEAN, allow_neigh_map \in BOOLEAN, e \in L2Env :
       L2Step("fib_do_redirect", needs_l2_check, allow_neigh_map, e,
              fib_do_redirect(FibCtx0, needs_l2_check,
                              fib_lookup_v4(ZeroParams, 2, 2, 5, e).params,
                              allow_neigh_map, e.lookup_ret, e.lookup_ifindex, 0, e))

NextL2 ==
  \/ call_maybe_add_l2_hdr
  \/ call_fib_do_redirect_l2
  \/ fib_return

SpecL2 == InitFib /\ [][NextL2]_vars

\* a call has returned; the device the packet is redirected onto
L2Returned == fib.fn \in {"maybe_add_l2_hdr", "fib_do_redirect"}

\* add_l2_hdr() changed the frame: grown, or grown with the ethertype written
L2Added == fib.out.ctx.l2 # "frame"

\* C37 as stated: with the L2 check requested, a header is added exactly when
\* the target device is an L3 device (lacks an L2 representation) and the
\* frame has no L2 header.
C37_SynthesisAsStated ==
  (L2Returned /\ fib.needs_l2_check) =>
    (L2Added <=> (IS_L3_DEV(fib.oif_in, fib.e) /\ fib.e.eth_hlen = 0 /\ fib.e.head_ok))

\* C37 amended: with the L2 check requested, add_l2_hdr() runs exactly when
\* the target device is no L3 device (it has an L2 representation) and the
\* frame has no L2 header (ETH_HLEN is 0); in every other case, and without
\* the L2 check, the frame length is unchanged; a failed ctx_change_head()
\* gives DROP_INVALID, a failed eth_store_proto() gives DROP_WRITE_ERROR, both
\* without a redirect; a target L3 device is redirected to with no L2 address
\* written.
C37_Synthesis ==
  L2Returned =>
    LET wanted == fib.needs_l2_check /\ ~IS_L3_DEV(fib.oif_in, fib.e) /\ fib.e.eth_hlen = 0
    IN /\ L2Added <=> (wanted /\ fib.e.head_ok)
       /\ fib.out.ctx.l2 = "synthesized" <=> (wanted /\ fib.e.head_ok /\ fib.e.proto_ok)
       /\ (wanted /\ ~fib.e.head_ok) =>
            /\ fib.out.ret = "DROP_INVALID"
            /\ fib.out.ctx.redirect.kind = "none" /\ L2Untouched
       /\ (wanted /\ fib.e.head_ok /\ ~fib.e.proto_ok) =>
            /\ fib.out.ret = "DROP_WRITE_ERROR"
            /\ fib.out.ctx.redirect.kind = "none" /\ L2Untouched
       /\ fib.out.ret \in {"DROP_INVALID", "DROP_WRITE_ERROR"} =>
            (wanted /\ (~fib.e.head_ok \/ ~fib.e.proto_ok))
       /\ (fib.needs_l2_check /\ IS_L3_DEV(fib.oif_in, fib.e)) =>
            IF fib.fn = "maybe_add_l2_hdr"
              THEN fib.out.ret = "CTX_ACT_OK" /\ ~fib.out.l2_hdr_required
            ELSE /\ fib.out.ret = "CTX_ACT_REDIRECT"
                 /\ fib.out.ctx.redirect.kind = "plain" /\ L2Untouched

\* fib_do_redirect() added the header for an L2 device and went on to write
\* the addresses of the lookup
C37_Witness ==
  /\ fib.fn = "fib_do_redirect" /\ fib.needs_l2_check
  /\ fib.oif_in = 7 /\ fib.e.l3_devs = {4} /\ fib.e.eth_hlen = 0
  /\ fib.out.ctx.l2 = "synthesized"
  /\ fib.out.ret = "CTX_ACT_REDIRECT" /\ fib.out.ctx.dmac = "fib_dmac"

\* the target is an L3 device and the frame has no L2 header: nothing added
C37_WitnessL3 ==
  /\ fib.fn = "fib_do_redirect" /\ fib.needs_l2_check
  /\ fib.oif_in = 4 /\ fib.e.l3_devs = {4} /\ fib.e.eth_hlen = 0
  /\ fib.out.ctx.l2 = "frame" /\ fib.out.ret = "CTX_ACT_REDIRECT"

\* eth_store_proto() failed after the frame was grown
C37_WitnessWrite ==
  /\ fib.fn = "maybe_add_l2_hdr" /\ fib.out.ret = "DROP_WRITE_ERROR"
  /\ fib.out.ctx.l2 = "grown"

====
